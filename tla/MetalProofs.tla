----------------------------- MODULE MetalProofs -----------------------------
(***************************************************************************)
(* Proofs about parts of WaliaOS: the rings of pulses, the page folding,   *)
(* the health of the cores, the dashboard and the surfaces, the console    *)
(* and the line editor, for any number of cores, slots and frames and any  *)
(* sizes.                                                                  *)
(***************************************************************************)
EXTENDS MCMetal, Searches, FiniteSetTheorems, SequenceTheorems

-----------------------------------------------------------------------------
(* The rings: the claims not taken yet fit the ring, each lies in a slot of *)
(* its own, and a field of it that is not there yet is one a sender still   *)
(* has to write.                                                            *)

Claims == [claim : Nat, left : (SUBSET Fields) \ {{}}]
Counters ==
  /\ claims \in Nat /\ taken \in Nat /\ taken <= claims /\ claims - taken <= Size
  /\ reader.copying => reader.left \in Nat /\ 0 < reader.left /\ reader.left <= claims - taken
TailSound == tail = taken % Wrap
ClaimsSound ==
  /\ DOMAIN pending = Senders
  /\ \A s \in Senders : pending[s] # NoClaim =>
        /\ pending[s] \in Claims
        /\ taken <= pending[s].claim /\ pending[s].claim < claims
  /\ \A s, v \in Senders : pending[s] # NoClaim /\ pending[v] # NoClaim
                           /\ pending[s].claim = pending[v].claim => s = v
SlotsFilled ==
  /\ buffer \in [0 .. Size - 1 -> [Fields -> Nat \union {Blank}]]
  /\ \A k \in taken .. claims - 1 : \A f \in Fields :
        \/ buffer[Slot(k)][f] = k
        \/ \E s \in Senders : pending[s] # NoClaim /\ pending[s].claim = k /\ f \in pending[s].left
LastWhole == \A f \in Fields : last.pulse[f] = last.position

RingSound == Counters /\ TailSound /\ ClaimsSound /\ SlotsFilled /\ LastWhole
RInv == ~overtaken => RingSound

LEMMA RingFacts ==
  /\ Size \in Nat /\ Size > 0 /\ Wrap \in Nat /\ Wrap > 0 /\ Wrap % Size = 0
  /\ Batch \in Nat /\ Batch > 0
  /\ \A n \in Nat : n % Size \in 0 .. Size - 1 /\ n % Wrap \in 0 .. Wrap - 1
<1>1. /\ Size \in Nat \ {0} /\ Wrap \in Nat \ {0} /\ Wrap % Size = 0
      /\ Batch \in Nat /\ Batch > 0
  BY SizeAssumption, BatchAssumption
<1>2. \A n \in Nat : n % Size \in 0 .. Size - 1 /\ n % Wrap \in 0 .. Wrap - 1
  BY <1>1, Division
<1> QED BY <1>1, <1>2

\* Numbers of a window no wider than the ring lie in different slots.
LEMMA WindowApart ==
  ASSUME NEW d \in Nat \ {0}, NEW a \in Nat, NEW b \in Nat, a <= b, b < a + d, a % d = b % d
  PROVE  a = b
<1>1. PICK q \in Nat, r \in 0 .. d - 1 : a = r + q * d /\ a % d = r /\ a \div d = q
  BY Division
<1>2. PICK p \in Nat, x \in 0 .. d - 1 : b = x + p * d /\ b % d = x /\ b \div d = p
  BY Division
<1>3. (q < p => q * d + d <= p * d) /\ (p < q => p * d + d <= q * d)
  BY MultipleStep
<1>4. q * d \in Nat /\ p * d \in Nat
  OBVIOUS
<1> QED BY <1>1, <1>2, <1>3, <1>4

\* A counter that wraps where the ring does leads to the slot of the counter that does not.
LEMMA WrappedSlot ==
  ASSUME NEW n \in Nat
  PROVE  Slot(n % Wrap) = Slot(n)
<1>1. PICK q \in Nat, r \in 0 .. Wrap - 1 : n = r + q * Wrap /\ n % Wrap = r /\ n \div Wrap = q
  BY RingFacts, Division
<1>2. PICK k \in Nat, y \in 0 .. Size - 1 : Wrap = y + k * Size /\ Wrap % Size = y /\ Wrap \div Size = k
  BY RingFacts, Division
<1>3. PICK j \in Nat, x \in 0 .. Size - 1 : r = x + j * Size /\ r % Size = x /\ r \div Size = j
  BY RingFacts, Division
<1>4. k * Size \in Nat /\ q * k \in Nat /\ Wrap = k * Size
  BY <1>2, RingFacts
<1>5. q * Wrap = (q * k) * Size
  BY <1>4, RingFacts
<1>6. q * k + j \in Nat /\ (q * k + j) * Size = (q * k) * Size + j * Size
  BY <1>4, RingFacts
<1>7. n = x + (q * k + j) * Size
  BY <1>1, <1>3, <1>5, <1>6, RingFacts
<1>8. n % Size = x
  BY <1>6, <1>7, RingFacts, QuotientRest
<1> QED BY <1>1, <1>3, <1>8 DEF Slot

LEMMA WrappedNext ==
  ASSUME NEW n \in Nat
  PROVE  ((n % Wrap) + 1) % Wrap = (n + 1) % Wrap
<1>1. PICK q \in Nat, r \in 0 .. Wrap - 1 : n = r + q * Wrap /\ n % Wrap = r /\ n \div Wrap = q
  BY RingFacts, Division
<1>2. CASE r + 1 < Wrap
  <2>1. r + 1 \in 0 .. Wrap - 1 /\ n + 1 = (r + 1) + q * Wrap /\ r + 1 = (r + 1) + 0 * Wrap
    BY <1>1, <1>2, RingFacts
  <2> DEFINE y == r + 1
  <2>2. (y + q * Wrap) % Wrap = y /\ (y + 0 * Wrap) % Wrap = y
    <3>1. y \in 0 .. Wrap - 1
      BY <2>1
    <3> HIDE DEF y
    <3> QED BY <3>1, RingFacts, QuotientRest
  <2> QED BY <1>1, <2>1, <2>2
<1>3. CASE ~ (r + 1 < Wrap)
  <2>1. r + 1 = 0 + 1 * Wrap /\ n + 1 = 0 + (q + 1) * Wrap
    BY <1>1, <1>3, RingFacts
  <2>2. (0 + 1 * Wrap) % Wrap = 0 /\ (0 + (q + 1) * Wrap) % Wrap = 0
    <3>1. 0 \in 0 .. Wrap - 1 /\ 1 \in Nat /\ q + 1 \in Nat
      BY RingFacts
    <3> QED BY <3>1, RingFacts, QuotientRest
  <2> QED BY <1>1, <2>1, <2>2
<1> QED BY <1>2, <1>3

\* What the wrapped counters make of a distance is never more than the distance.
LEMMA WrappedDistance ==
  ASSUME NEW a \in Nat, NEW b \in Nat, a <= b
  PROVE  /\ (b % Wrap) - (a % Wrap) <= b - a
         /\ ((b % Wrap) + Wrap - (a % Wrap)) % Wrap \in Nat
         /\ ((b % Wrap) + Wrap - (a % Wrap)) % Wrap <= b - a
<1>1. PICK q \in Nat, r \in 0 .. Wrap - 1 : a = r + q * Wrap /\ a % Wrap = r /\ a \div Wrap = q
  BY RingFacts, Division
<1>2. PICK p \in Nat, x \in 0 .. Wrap - 1 : b = x + p * Wrap /\ b % Wrap = x /\ b \div Wrap = p
  BY RingFacts, Division
<1>3. (q < p => q * Wrap + Wrap <= p * Wrap) /\ (p < q => p * Wrap + Wrap <= q * Wrap)
  BY MultipleStep, RingFacts
<1>4. q * Wrap \in Nat /\ p * Wrap \in Nat
  BY RingFacts
<1>5. q <= p /\ x - r <= b - a /\ (x < r => x + Wrap - r <= b - a)
  BY <1>1, <1>2, <1>3, <1>4, RingFacts
<1> DEFINE y == x + Wrap - r
<1>6. y \in Nat /\ y < 2 * Wrap /\ (y < Wrap <=> x < r)
  BY RingFacts
<1>7. y % Wrap = IF y < Wrap THEN y ELSE y - Wrap
  <2> HIDE DEF y
  <2> QED BY <1>6, RingFacts, RingStep
<1>8. y % Wrap \in Nat /\ y % Wrap <= b - a
  BY <1>5, <1>6, <1>7, RingFacts
<1> QED BY <1>1, <1>2, <1>5, <1>8

LEMMA RInvInit == RingInit => RInv
<1> SUFFICES ASSUME RingInit PROVE RingSound
  BY DEF RInv
<1> USE RingFacts DEF RingInit
<1>1. 0 % Wrap = 0
  <2>1. 0 = 0 + 0 * Wrap /\ 0 \in 0 .. Wrap - 1
    OBVIOUS
  <2>2. (0 + 0 * Wrap) % Wrap = 0
    BY <2>1, QuotientRest
  <2> QED BY <2>1, <2>2
<1>2. buffer \in [0 .. Size - 1 -> [Fields -> Nat \union {Blank}]]
  OBVIOUS
<1>3. DOMAIN pending = Senders /\ \A s \in Senders : pending[s] = NoClaim
  OBVIOUS
<1>4. \A f \in Fields : last.pulse[f] = last.position
  OBVIOUS
<1> QED BY <1>1, <1>2, <1>3, <1>4
        DEF RingSound, Counters, TailSound, ClaimsSound, SlotsFilled, LastWhole, Resting

LEMMA RInvClaim ==
  ASSUME RInv, NEW s \in Senders, Claim(s)
  PROVE  RInv'
<1> SUFFICES ASSUME ~ overtaken' PROVE RingSound'
  BY DEF RInv
<1> USE RingFacts
<1>1. /\ Counters /\ TailSound /\ ClaimsSound /\ SlotsFilled /\ LastWhole
      /\ ~ (claims - taken >= Size)
  BY DEF RInv, RingSound, Claim
<1>2. /\ claims' = claims + 1 /\ taken' = taken /\ tail' = tail /\ buffer' = buffer
      /\ reader' = reader /\ last' = last /\ pending[s] = NoClaim
      /\ DOMAIN pending' = Senders /\ pending'[s] = [claim |-> claims, left |-> Fields]
      /\ \A v \in Senders \ {s} : pending'[v] = pending[v]
  BY <1>1 DEF Claim, ClaimsSound
<1>3. /\ claims \in Nat /\ taken \in Nat /\ taken <= claims /\ claims' - taken' <= Size
      /\ claims' \in Nat /\ taken' <= claims'
  BY <1>1, <1>2 DEF Counters
<1>4. pending'[s] \in Claims /\ pending'[s] # NoClaim /\ pending'[s].claim = claims
      /\ pending'[s].left = Fields
  <2>1. Fields # {}
    BY DEF Fields
  <2> QED BY <1>2, <1>3, <2>1 DEF Claims, NoClaim
<1>5. \A v \in Senders : pending'[v] # NoClaim =>
        /\ pending'[v] \in Claims
        /\ taken' <= pending'[v].claim /\ pending'[v].claim < claims'
  <2> TAKE v \in Senders
  <2>1. CASE v = s
    BY <1>2, <1>3, <1>4, <2>1
  <2>2. CASE v # s
    <3>1. pending[v] # NoClaim => pending[v].claim \in Nat
      BY <1>1 DEF Claims, ClaimsSound
    <3> QED BY <1>1, <1>2, <1>3, <2>2, <3>1 DEF ClaimsSound
  <2> QED BY <2>1, <2>2
<1>6. \A v, u \in Senders : pending'[v] # NoClaim /\ pending'[u] # NoClaim
                            /\ pending'[v].claim = pending'[u].claim => v = u
  <2>1. \A v \in Senders \ {s} : pending'[v] # NoClaim => pending'[v].claim # pending'[s].claim
    <3> TAKE v \in Senders \ {s}
    <3>1. pending[v] # NoClaim => pending[v].claim \in Nat /\ pending[v].claim < claims
      BY <1>1 DEF Claims, ClaimsSound
    <3> QED BY <1>2, <1>3, <1>4, <3>1
  <2> QED BY <1>1, <1>2, <2>1 DEF ClaimsSound
<1>7. ASSUME NEW k \in taken' .. claims' - 1, NEW f \in Fields
      PROVE  \/ buffer'[Slot(k)][f] = k
             \/ \E v \in Senders : pending'[v] # NoClaim /\ pending'[v].claim = k
                                   /\ f \in pending'[v].left
  <2>1. CASE k = claims
    BY <1>4, <2>1
  <2>2. CASE k # claims
    <3>1. k \in taken .. claims - 1
      BY <1>2, <1>3, <2>2
    <3>2. \/ buffer[Slot(k)][f] = k
          \/ \E v \in Senders : pending[v] # NoClaim /\ pending[v].claim = k /\ f \in pending[v].left
      BY <1>1, <3>1 DEF SlotsFilled
    <3> QED BY <1>2, <3>2
  <2> QED BY <2>1, <2>2
<1>8. Counters'
  BY <1>1, <1>2, <1>3 DEF Counters
<1>9. TailSound' /\ LastWhole'
  BY <1>1, <1>2 DEF TailSound, LastWhole
<1>10. SlotsFilled'
  BY <1>1, <1>2, <1>7 DEF SlotsFilled
<1>11. ClaimsSound'
  BY <1>2, <1>5, <1>6 DEF ClaimsSound
<1> QED BY <1>8, <1>9, <1>10, <1>11 DEF RingSound

LEMMA RInvDeposit ==
  ASSUME RInv, NEW s \in Senders, NEW f \in Fields, Deposit(s, f)
  PROVE  RInv'
<1> SUFFICES ASSUME ~ overtaken' PROVE RingSound'
  BY DEF RInv
<1> USE RingFacts
<1>1. Counters /\ TailSound /\ ClaimsSound /\ SlotsFilled /\ LastWhole
  BY DEF RInv, RingSound, Deposit
<1> DEFINE c == pending[s].claim
<1>2. /\ claims' = claims /\ taken' = taken /\ tail' = tail /\ reader' = reader /\ last' = last
      /\ DOMAIN pending' = Senders /\ f \in pending[s].left
      /\ \A v \in Senders \ {s} : pending'[v] = pending[v]
      /\ pending'[s] = IF pending[s].left \ {f} = {} THEN NoClaim
                       ELSE [claim |-> c, left |-> pending[s].left \ {f}]
      /\ buffer' = [buffer EXCEPT ![Slot(c)][f] = c]
  BY <1>1 DEF Deposit, ClaimsSound
<1>3. /\ pending[s] # NoClaim /\ pending[s] \in Claims /\ c \in Nat /\ taken <= c /\ c < claims
      /\ claims \in Nat /\ taken \in Nat /\ claims - taken <= Size /\ Slot(c) \in 0 .. Size - 1
  <2>1. pending[s] # NoClaim
    BY <1>2 DEF NoClaim
  <2>2. c \in Nat
    BY <1>1, <2>1 DEF Claims, ClaimsSound
  <2> QED BY <1>1, <2>1, <2>2 DEF ClaimsSound, Counters, Slot
<1>4. /\ pending'[s] # NoClaim => /\ pending'[s] \in Claims /\ pending'[s].claim = c
                                  /\ pending'[s].left = pending[s].left \ {f}
      /\ \A g \in pending[s].left \ {f} : pending'[s] # NoClaim
  <2> DEFINE rest == pending[s].left \ {f}
  <2>1. CASE rest = {}
    BY <1>2, <2>1
  <2>2. CASE rest # {}
    <3>1. pending'[s] = [claim |-> c, left |-> rest]
      BY <1>2, <2>2
    <3>2. rest \in SUBSET Fields
      BY <1>3 DEF Claims
    <3>3. pending'[s] \in Claims
      BY <1>3, <2>2, <3>1, <3>2 DEF Claims
    <3>4. pending'[s] # NoClaim
      BY <2>2, <3>1 DEF NoClaim
    <3> QED BY <3>1, <3>3, <3>4
  <2> QED BY <2>1, <2>2
<1>5. \A v \in Senders : pending'[v] # NoClaim =>
        /\ pending[v] # NoClaim /\ pending'[v] \in Claims /\ pending'[v].claim = pending[v].claim
  BY <1>1, <1>2, <1>3, <1>4 DEF ClaimsSound
<1>6. /\ buffer' \in [0 .. Size - 1 -> [Fields -> Nat \union {Blank}]]
      /\ buffer'[Slot(c)][f] = c
      /\ \A i \in 0 .. Size - 1 : \A g \in Fields :
            ~ (i = Slot(c) /\ g = f) => buffer'[i][g] = buffer[i][g]
  BY <1>1, <1>2, <1>3 DEF SlotsFilled
<1>7. ASSUME NEW k \in taken' .. claims' - 1, NEW g \in Fields
      PROVE  \/ buffer'[Slot(k)][g] = k
             \/ \E v \in Senders : pending'[v] # NoClaim /\ pending'[v].claim = k
                                   /\ g \in pending'[v].left
  <2>0. k \in Nat /\ taken <= k /\ k < claims /\ Slot(k) \in 0 .. Size - 1
        /\ k \in taken .. claims - 1
    BY <1>2, <1>3 DEF Slot
  <2>1. CASE k = c
    <3>1. CASE g = f
      BY <1>6, <2>1, <3>1
    <3>2. CASE g # f
      <4>1. CASE buffer[Slot(k)][g] = k
        BY <1>6, <2>0, <3>2, <4>1
      <4>2. ASSUME NEW v \in Senders, pending[v] # NoClaim, pending[v].claim = k, g \in pending[v].left
            PROVE  \E u \in Senders : pending'[u] # NoClaim /\ pending'[u].claim = k
                                      /\ g \in pending'[u].left
        <5>1. v = s
          BY <1>1, <1>3, <2>1, <4>2 DEF ClaimsSound
        <5> QED BY <1>4, <2>1, <3>2, <4>2, <5>1
      <4> QED BY <1>1, <2>0, <4>1, <4>2 DEF SlotsFilled
    <3> QED BY <3>1, <3>2
  <2>2. CASE k # c
    <3>1. Slot(k) # Slot(c)
      <4>1. k <= c \/ c <= k
        BY <1>3, <2>0
      <4>2. (k <= c => c < k + Size) /\ (c <= k => k < c + Size)
        BY <1>3, <2>0
      <4>3. k % Size = c % Size /\ k <= c => k = c
        BY <1>3, <2>0, <4>2, WindowApart
      <4>4. c % Size = k % Size /\ c <= k => c = k
        BY <1>3, <2>0, <4>2, WindowApart
      <4> QED BY <2>2, <4>1, <4>3, <4>4 DEF Slot
    <3>2. buffer'[Slot(k)][g] = buffer[Slot(k)][g]
      BY <1>6, <2>0, <3>1
    <3>3. ASSUME NEW v \in Senders, pending[v] # NoClaim, pending[v].claim = k, g \in pending[v].left
          PROVE  pending'[v] = pending[v]
      BY <1>2, <2>2, <3>3
    <3> QED BY <1>1, <2>0, <3>2, <3>3 DEF SlotsFilled
  <2> QED BY <2>1, <2>2
<1>8. \A v \in Senders : pending'[v] # NoClaim =>
        /\ pending'[v] \in Claims
        /\ taken' <= pending'[v].claim /\ pending'[v].claim < claims'
  BY <1>1, <1>2, <1>5 DEF ClaimsSound
<1>9. \A v, u \in Senders : pending'[v] # NoClaim /\ pending'[u] # NoClaim
                            /\ pending'[v].claim = pending'[u].claim => v = u
  BY <1>1, <1>5 DEF ClaimsSound
<1>10. Counters' /\ TailSound' /\ LastWhole'
  BY <1>1, <1>2 DEF Counters, TailSound, LastWhole
<1>11. SlotsFilled'
  BY <1>6, <1>7 DEF SlotsFilled
<1>12. ClaimsSound'
  BY <1>2, <1>8, <1>9 DEF ClaimsSound
<1> QED BY <1>10, <1>11, <1>12 DEF RingSound

\* What a reader sees of the counters is never more than what was claimed and not taken.
LEMMA SeenIsThere ==
  ASSUME RingSound
  PROVE  /\ Available(tail) \in Nat /\ Available(tail) <= claims - taken
         /\ Lag(tail) \in Nat /\ Lag(tail) <= claims - taken
<1> USE RingFacts
<1>1. claims \in Nat /\ taken \in Nat /\ taken <= claims /\ tail = taken % Wrap
  BY DEF RingSound, Counters, TailSound
<1>2. /\ (claims % Wrap) - (taken % Wrap) <= claims - taken
      /\ ((claims % Wrap) + Wrap - (taken % Wrap)) % Wrap \in Nat
      /\ ((claims % Wrap) + Wrap - (taken % Wrap)) % Wrap <= claims - taken
  BY <1>1, WrappedDistance
<1>3. claims % Wrap \in Nat /\ taken % Wrap \in Nat
  BY <1>1
<1>4. /\ Available(tail) = IF taken % Wrap < claims % Wrap
                           THEN (claims % Wrap) - (taken % Wrap) ELSE 0
      /\ Lag(tail) = ((claims % Wrap) + Wrap - (taken % Wrap)) % Wrap
  BY <1>1 DEF Available, Lag, Counter
<1> QED BY <1>1, <1>2, <1>3, <1>4

LEMMA RInvRead ==
  ASSUME RInv, Reap \/ Collect
  PROVE  RInv'
<1> SUFFICES ASSUME ~ overtaken' PROVE RingSound'
  BY DEF RInv
<1> USE RingFacts
<1>1. RingSound
  BY DEF RInv, Reap, Collect
<1>2. /\ claims \in Nat /\ taken \in Nat /\ taken <= claims /\ claims - taken <= Size
      /\ Available(tail) \in Nat /\ Available(tail) <= claims - taken
      /\ Lag(tail) \in Nat /\ Lag(tail) <= claims - taken
  BY <1>1, SeenIsThere DEF RingSound, Counters
<1>3. /\ claims' = claims /\ taken' = taken /\ tail' = tail /\ buffer' = buffer
      /\ pending' = pending /\ last' = last
  BY <1>2 DEF Reap, Collect
<1>4. reader'.copying => reader'.left \in Nat /\ 0 < reader'.left /\ reader'.left <= claims - taken
  <2>1. CASE Reap
    BY <1>2, <2>1 DEF Reap
  <2>2. CASE Collect
    BY <1>2, <2>2 DEF Collect
  <2> QED BY <2>1, <2>2
<1>5. Counters'
  BY <1>2, <1>3, <1>4 DEF Counters
<1> QED BY <1>1, <1>3, <1>5 DEF RingSound, TailSound, ClaimsSound, SlotsFilled, LastWhole

LEMMA RInvTake ==
  ASSUME RInv, Take
  PROVE  RInv'
<1> SUFFICES ASSUME ~ overtaken' PROVE RingSound'
  BY DEF RInv
<1> USE RingFacts
<1>1. /\ Counters /\ TailSound /\ ClaimsSound /\ SlotsFilled /\ LastWhole
      /\ Settled(Slot(tail)) /\ reader.copying
  BY DEF RInv, RingSound, Take
<1>2. /\ claims \in Nat /\ taken \in Nat /\ reader.left \in Nat /\ 0 < reader.left
      /\ reader.left <= claims - taken /\ taken < claims /\ Slot(tail) = Slot(taken)
      /\ claims - taken <= Size /\ tail = taken % Wrap
  <2>1. /\ claims \in Nat /\ taken \in Nat /\ reader.left \in Nat /\ 0 < reader.left
        /\ reader.left <= claims - taken /\ taken < claims /\ claims - taken <= Size
    BY <1>1 DEF Counters
  <2>2. tail = taken % Wrap
    BY <1>1 DEF TailSound
  <2> QED BY <2>1, <2>2, WrappedSlot
<1>3. /\ claims' = claims /\ taken' = taken + 1 /\ tail' = (tail + 1) % Wrap /\ buffer' = buffer
      /\ pending' = pending
      /\ last'.position = taken /\ last'.pulse = buffer[Slot(taken)]
      /\ reader' = IF reader.left = 1 THEN Resting ELSE [reader EXCEPT !.left = @ - 1]
  BY <1>2 DEF Take
<1>4. \A s \in Senders : pending[s] # NoClaim => pending[s].claim # taken
  BY <1>1, <1>2 DEF Settled
<1>5. \A f \in Fields : last'.pulse[f] = last'.position
  <2>1. taken \in taken .. claims - 1
    BY <1>2
  <2>2. \A f \in Fields : buffer[Slot(taken)][f] = taken
    BY <1>1, <1>4, <2>1 DEF SlotsFilled
  <2> QED BY <1>3, <2>2
<1>6. \A s \in Senders : pending[s] # NoClaim => taken + 1 <= pending[s].claim
  <2> TAKE s \in Senders
  <2>1. pending[s] # NoClaim => pending[s].claim \in Nat /\ taken <= pending[s].claim
    BY <1>1 DEF ClaimsSound, Claims
  <2> QED BY <1>2, <1>4, <2>1
<1>7. tail' = taken' % Wrap
  BY <1>2, <1>3, WrappedNext
<1>8. reader'.copying => reader'.left \in Nat /\ 0 < reader'.left /\ reader'.left <= claims' - taken'
  <2>1. CASE reader.left = 1
    BY <1>3, <2>1 DEF Resting
  <2>2. CASE reader.left # 1
    <3>1. reader'.copying => reader'.left = reader.left - 1
      <4>1. reader' = [reader EXCEPT !.left = reader.left - 1]
        BY <1>3, <2>2
      <4> QED BY <4>1
    <3> QED BY <1>2, <1>3, <2>2, <3>1
  <2> QED BY <2>1, <2>2
<1>9. taken' .. claims' - 1 \subseteq taken .. claims - 1
  BY <1>2, <1>3
<1>10. Counters'
  BY <1>2, <1>3, <1>8 DEF Counters
<1>11. ClaimsSound'
  BY <1>1, <1>3, <1>6 DEF ClaimsSound
<1>12. SlotsFilled'
  BY <1>1, <1>3, <1>9 DEF SlotsFilled
<1> QED BY <1>5, <1>7, <1>10, <1>11, <1>12 DEF RingSound, TailSound, LastWhole

\* Whoever sends, the rings move only by these steps.
LEMMA MetalRingStep ==
  ASSUME [Next]_metalVars
  PROVE  \/ \E s \in Senders : Claim(s) \/ \E f \in Fields : Deposit(s, f)
         \/ Reap \/ Collect \/ Take
         \/ UNCHANGED <<claims, tail, buffer, pending, reader, taken, last, overtaken>>
<1>1. CASE Rings
  BY <1>1 DEF Rings, RingNext, sys_fabric_send, sys_ipc_send, walia_pulse_emit, walia_pulse_shutdown
<1>2. CASE Line
  <2>1. CASE UNCHANGED ringVars
    BY <2>1 DEF ringVars
  <2>2. PressBeyond \/ (\E code \in Keys : PressKey(code)) \/ Edit => UNCHANGED ringVars
    BY DEF PressBeyond, PressKey, Edit
  <2>3. sys_keyboard_poll => Claim(Shell) \/ UNCHANGED ringVars
    BY DEF sys_keyboard_poll, walia_pulse_emit
  <2>4. Emit => \E f \in Fields : Deposit(Shell, f)
    BY DEF Emit
  <2>5. CollectPulses \/ TakePulse => Collect \/ Take \/ UNCHANGED ringVars
    BY DEF CollectPulses, TakePulse, ringVars
  <2>6. ASSUME NEW s \in Senders, EmitOther(s) PROVE Claim(s) \/ \E f \in Fields : Deposit(s, f)
    BY <2>6 DEF EmitOther, walia_pulse_emit
  <2> QED BY <1>2, <2>1, <2>2, <2>3, <2>4, <2>5, <2>6, ShellAssumption DEF Line, LineNext
<1>3. CASE UNCHANGED ringVars
  BY <1>3 DEF ringVars
<1>4. Next => Rings \/ Line \/ UNCHANGED ringVars
  BY DEF Next, OnConsole, Fold, Watch, Library, Drawings, lineVars
<1>5. UNCHANGED metalVars => UNCHANGED ringVars
  BY DEF metalVars, lineVars
<1> QED BY <1>1, <1>2, <1>3, <1>4, <1>5

LEMMA RInvAlways == Spec => []RInv
<1>1. Init => RInv
  BY RInvInit DEF Init
<1>2. ASSUME RInv, [Next]_metalVars PROVE RInv'
  <2>1. UNCHANGED <<claims, tail, buffer, pending, reader, taken, last, overtaken>> => RInv'
    BY <1>2 DEF RInv, RingSound, Counters, TailSound, ClaimsSound, SlotsFilled, LastWhole
  <2> QED BY <1>2, <2>1, MetalRingStep, RInvClaim, RInvDeposit, RInvRead, RInvTake
<1> QED BY <1>1, <1>2, PTL DEF Spec

\* For any number of senders, ring size, batch and wrap of the counters: unless a slot was
\* taken before it was filled or claimed before it was taken, pulses arrive whole, once and
\* in the order of their claims.
THEOREM RingsDelivered == Spec => []Delivered
<1>1. RInv => Delivered
  BY DEF RInv, RingSound, LastWhole, Delivered
<1> QED BY <1>1, RInvAlways, PTL

-----------------------------------------------------------------------------
(* The table of folded pages: whoever probes for a hash has only other keys *)
(* behind it, which stay there, so the probes of equal hashes meet in the   *)
(* one slot that has it. The operators take the slots as parameters: H the  *)
(* hashes, P the addresses.                                                 *)

Probe(h, i) == (Home(h) + i) % Buckets
At(k) == Probe(k.hash, k.i)
Behind(H, h, i) == \A j \in 0 .. i - 1 : H[Probe(h, j)] \notin {NoHash, h}
Has(H, P, h) == \E s \in Slots : H[s] = h /\ P[s] # NoAddr

Calls == [op : {"register", "store", "fold", "load"}, hash : Hashes, addr : Nat \ {0},
          i : 0 .. Window - 1, known : BOOLEAN]
TableTyped ==
  /\ logic_hash \in [Slots -> Hashes \union {NoHash}]
  /\ physical_addr \in [Slots -> Nat \union {NoAddr}]
  /\ call \in [Callers -> Calls \union {NoCall}]
  /\ calls \in Nat

\* A stored hash was probed for from its home, and its address was registered for it.
HashSound(H, s) ==
  H[s] # NoHash => \E i \in 0 .. Window - 1 : s = Probe(H[s], i) /\ Behind(H, H[s], i)
AddrSound(H, P, O, s) == P[s] # NoAddr => H[s] # NoHash /\ <<H[s], P[s]>> \in O
SlotsSound == \A s \in Slots : /\ HashSound(logic_hash, s)
                               /\ AddrSound(logic_hash, physical_addr, owners, s)

Stores(k) == k # NoCall /\ k.op = "store"
CallSound(H, P, O, k) ==
  /\ Behind(H, k.hash, k.i)
  /\ k.op \in {"register", "store"} => <<k.hash, k.addr>> \in O
  /\ k.op \in {"store", "load"} => H[At(k)] = k.hash
  /\ k.op = "store" => P[At(k)] = NoAddr
  /\ k.known => Has(H, P, k.hash)
CallsSound ==
  /\ \A c \in Callers : call[c] # NoCall => CallSound(logic_hash, physical_addr, owners, call[c])
  /\ \A c, d \in Callers : Stores(call[c]) /\ Stores(call[d]) /\ At(call[c]) = At(call[d]) => c = d

AnswerSound(H, P, a) ==
  IF a.addr = NoAddr THEN ~ a.known
  ELSE \E s \in Slots : H[s] = a.hash /\ P[s] = a.addr /\ a.hash # NoHash
AnswersSound == \A a \in answers : AnswerSound(logic_hash, physical_addr, a)

TInv == TableTyped /\ SlotsSound /\ CallsSound /\ AnswersSound

LEMMA FoldFacts ==
  /\ Buckets \in Nat \ {0} /\ Window \in Nat /\ Window > 0 /\ NoHash \notin Hashes
  /\ \A n \in Nat : n # 0 => n # NoAddr
  /\ \A h \in Hashes, i \in Nat : Probe(h, i) \in Slots
<1>1. Buckets \in Nat \ {0} /\ Window \in Nat /\ Window > 0 /\ NoHash \notin Hashes
  BY TableAssumption, NoneAssumption
<1>2. \A n \in Nat : n # 0 => n # NoAddr
  BY NoneAssumption
<1>3. ASSUME NEW h \in Hashes, NEW i \in Nat PROVE Probe(h, i) \in Slots
  <2> DEFINE n == Home(h) + i
  <2>1. n \in Nat
    BY TableAssumption
  <2> HIDE DEF n
  <2>2. n % Buckets \in 0 .. Buckets - 1
    BY <1>1, <2>1, Division
  <2> QED BY <2>2 DEF Probe, n, Slots
<1> QED BY <1>1, <1>2, <1>3

\* A hash lies in one slot.
LEMMA HashesApart ==
  ASSUME NEW H, NEW s \in Slots, NEW t \in Slots, HashSound(H, s), HashSound(H, t),
         H[s] = H[t], H[s] # NoHash
  PROVE  s = t
<1>1. PICK i \in 0 .. Window - 1 : s = Probe(H[s], i) /\ Behind(H, H[s], i)
  BY DEF HashSound
<1>2. PICK j \in 0 .. Window - 1 : t = Probe(H[s], j) /\ Behind(H, H[s], j)
  BY DEF HashSound
<1>3. ~ (i < j)
  <2> SUFFICES ASSUME i < j PROVE FALSE
    OBVIOUS
  <2>1. i \in 0 .. j - 1
    BY FoldFacts
  <2> QED BY <1>1, <1>2, <2>1 DEF Behind
<1>4. ~ (j < i)
  <2> SUFFICES ASSUME j < i PROVE FALSE
    OBVIOUS
  <2>1. j \in 0 .. i - 1
    BY FoldFacts
  <2> QED BY <1>1, <1>2, <2>1 DEF Behind
<1>5. i = j
  BY <1>3, <1>4, FoldFacts
<1> QED BY <1>1, <1>2, <1>5

LEMMA TInvImplies == TInv => FoldsAgree
<1> SUFFICES ASSUME TInv PROVE FoldsAgree
  OBVIOUS
<1> USE DEF TInv
<1>1. \A s, t \in Slots : logic_hash[s] = logic_hash[t] /\ s # t => logic_hash[s] = NoHash
  BY HashesApart DEF SlotsSound
<1>2. ASSUME NEW a \in answers, NEW b \in answers, a.hash = b.hash, NoAddr \notin {a.addr, b.addr}
      PROVE  a.addr = b.addr
  <2>1. PICK s \in Slots : logic_hash[s] = a.hash /\ physical_addr[s] = a.addr /\ a.hash # NoHash
    BY <1>2 DEF AnswersSound, AnswerSound
  <2>2. PICK t \in Slots : logic_hash[t] = b.hash /\ physical_addr[t] = b.addr
    BY <1>2 DEF AnswersSound, AnswerSound
  <2> QED BY <1>1, <1>2, <2>1, <2>2
<1>3. ASSUME NEW a \in answers
      PROVE  IF a.addr = NoAddr THEN ~ a.known ELSE <<a.hash, a.addr>> \in owners
  <2>1. CASE a.addr = NoAddr
    BY <2>1 DEF AnswersSound, AnswerSound
  <2>2. CASE a.addr # NoAddr
    BY <2>2 DEF AnswersSound, AnswerSound, SlotsSound, AddrSound
  <2> QED BY <2>1, <2>2
<1> QED BY <1>1, <1>2, <1>3 DEF FoldsAgree

LEMMA TInvInit == FoldInit => TInv
<1> SUFFICES ASSUME FoldInit PROVE TInv
  OBVIOUS
<1> USE DEF FoldInit
<1>1. TableTyped
  BY DEF TableTyped
<1>2. SlotsSound
  BY DEF SlotsSound, HashSound, AddrSound
<1>3. CallsSound
  BY DEF CallsSound, Stores
<1>4. AnswersSound
  BY DEF AnswersSound
<1> QED BY <1>1, <1>2, <1>3, <1>4 DEF TInv

\* Hashes and addresses are written once.
Grown(H, G) == \A s \in Slots : H[s] # NoHash => G[s] = H[s]
Filled(P, R) == \A s \in Slots : P[s] # NoAddr => R[s] = P[s]

LEMMA OnceWritten ==
  ASSUME NEW H, NEW G, Grown(H, G), NEW P, NEW R, Filled(P, R), NEW h \in Hashes
  PROVE  /\ \A i \in 0 .. Window : Behind(H, h, i) => Behind(G, h, i)
         /\ Has(H, P, h) => Has(G, R, h)
<1>1. ASSUME NEW i \in 0 .. Window, Behind(H, h, i), NEW j \in 0 .. i - 1
      PROVE  G[Probe(h, j)] \notin {NoHash, h}
  <2>1. j \in Nat /\ Probe(h, j) \in Slots
    BY FoldFacts
  <2> QED BY <1>1, <2>1 DEF Behind, Grown
<1>2. ASSUME Has(H, P, h) PROVE Has(G, R, h)
  <2>1. PICK s \in Slots : H[s] = h /\ P[s] # NoAddr
    BY <1>2 DEF Has
  <2>2. G[s] = h /\ R[s] # NoAddr
    BY <2>1, FoldFacts DEF Grown, Filled
  <2> QED BY <2>2 DEF Has
<1> QED BY <1>1, <1>2 DEF Behind

LEMMA CallTyped ==
  ASSUME TInv, NEW c \in Callers, call[c] # NoCall
  PROVE  /\ call[c] \in Calls /\ call[c].hash \in Hashes /\ call[c].hash # NoHash
         /\ call[c].i \in 0 .. Window - 1 /\ call[c].i \in Nat
         /\ call[c].addr \in Nat /\ call[c].addr # NoAddr
         /\ Probed(c) = At(call[c]) /\ Probed(c) \in Slots
         /\ CallSound(logic_hash, physical_addr, owners, call[c])
<1>1. call[c] \in Calls
  BY DEF TInv, TableTyped
<1>2. CallSound(logic_hash, physical_addr, owners, call[c])
  BY DEF TInv, CallsSound
<1> QED BY <1>1, <1>2, FoldFacts DEF Calls, Probed, Probe, At

LEMMA CallKept ==
  ASSUME NEW H, NEW G, Grown(H, G), NEW P, NEW R, Filled(P, R), NEW O, NEW Q, O \subseteq Q,
         NEW k \in Calls, CallSound(H, P, O, k), k.op = "store" => R[At(k)] = NoAddr
  PROVE  CallSound(G, R, Q, k)
<1>1. k.hash \in Hashes /\ k.i \in 0 .. Window - 1 /\ k.i \in 0 .. Window /\ At(k) \in Slots
      /\ k.hash # NoHash
  BY FoldFacts DEF Calls, At
<1>2. Behind(G, k.hash, k.i) /\ (k.known => Has(G, R, k.hash))
  <2>1. Behind(H, k.hash, k.i) /\ (k.known => Has(H, P, k.hash))
    BY DEF CallSound
  <2> QED BY <1>1, <2>1, OnceWritten
<1>3. k.op \in {"store", "load"} => G[At(k)] = k.hash
  BY <1>1 DEF CallSound, Grown
<1> QED BY <1>2, <1>3 DEF CallSound

LEMMA AnswerKept ==
  ASSUME NEW H, NEW G, Grown(H, G), NEW P, NEW R, Filled(P, R), NEW a, AnswerSound(H, P, a)
  PROVE  AnswerSound(G, R, a)
BY DEF AnswerSound, Grown, Filled

LEMMA SlotKept ==
  ASSUME TInv, Grown(logic_hash, logic_hash'), NEW s \in Slots, logic_hash'[s] = logic_hash[s]
  PROVE  HashSound(logic_hash', s)
<1> SUFFICES ASSUME logic_hash[s] # NoHash PROVE HashSound(logic_hash', s)
  BY DEF HashSound
<1>1. PICK i \in 0 .. Window - 1 : s = Probe(logic_hash[s], i) /\ Behind(logic_hash, logic_hash[s], i)
  BY DEF TInv, SlotsSound, HashSound
<1>2. logic_hash[s] \in Hashes /\ i \in 0 .. Window
  BY FoldFacts DEF TInv, TableTyped
<1>3. Behind(logic_hash', logic_hash[s], i)
  <2>1. Filled(physical_addr, physical_addr)
    BY DEF Filled
  <2> QED BY <1>1, <1>2, <2>1, OnceWritten
<1> QED BY <1>1, <1>3 DEF HashSound

\* A step of one core's call.
LEMMA TInvCall ==
  ASSUME TInv, NEW c \in Callers, NEW k, call' = [call EXCEPT ![c] = k],
         k = NoCall \/ (k \in Calls /\ CallSound(logic_hash', physical_addr', owners', k)),
         owners \subseteq owners', Grown(logic_hash, logic_hash'),
         Filled(physical_addr, physical_addr'),
         \A d \in Callers \ {c} : Stores(call[d]) =>
            physical_addr'[At(call[d])] = NoAddr /\ (Stores(k) => At(k) # At(call[d])),
         logic_hash' \in [Slots -> Hashes \union {NoHash}],
         physical_addr' \in [Slots -> Nat \union {NoAddr}],
         calls' \in Nat, SlotsSound', AnswersSound'
  PROVE  TInv'
<1>1. /\ call'[c] = k /\ \A d \in Callers \ {c} : call'[d] = call[d]
      /\ call' \in [Callers -> Calls \union {NoCall}]
  BY DEF TInv, TableTyped
<1>2. TableTyped'
  BY <1>1 DEF TableTyped
<1>3. ASSUME NEW d \in Callers, call'[d] # NoCall
      PROVE  CallSound(logic_hash', physical_addr', owners', call'[d])
  <2>1. CASE d = c
    BY <1>1, <1>3, <2>1
  <2>2. CASE d # c
    <3>1. call'[d] = call[d] /\ call[d] \in Calls
          /\ CallSound(logic_hash, physical_addr, owners, call[d])
      BY <1>1, <1>3, <2>2, CallTyped
    <3>2. call[d].op = "store" => physical_addr'[At(call[d])] = NoAddr
      BY <1>3, <2>2, <3>1 DEF Stores
    <3> QED BY <3>1, <3>2, CallKept
  <2> QED BY <2>1, <2>2
<1>4. ASSUME NEW d \in Callers, NEW e \in Callers, Stores(call'[d]), Stores(call'[e]),
             At(call'[d]) = At(call'[e])
      PROVE  d = e
  BY <1>1, <1>4 DEF TInv, CallsSound
<1>5. CallsSound'
  BY <1>3, <1>4 DEF CallsSound, Stores, At, Probe
<1> QED BY <1>2, <1>5 DEF TInv

\* A step that leaves the slots alone.
LEMMA TInvProbe ==
  ASSUME TInv, NEW c \in Callers, NEW k, call' = [call EXCEPT ![c] = k],
         k = NoCall \/ (k \in Calls /\ k.op # "store"
                        /\ CallSound(logic_hash, physical_addr, owners', k)),
         owners \subseteq owners', logic_hash' = logic_hash, physical_addr' = physical_addr,
         calls' \in Nat, AnswersSound'
  PROVE  TInv'
<1>1. Grown(logic_hash, logic_hash') /\ Filled(physical_addr, physical_addr')
  BY DEF Grown, Filled
<1>2. SlotsSound'
  BY DEF TInv, SlotsSound, HashSound, AddrSound, Behind, Probe
<1>3. logic_hash' \in [Slots -> Hashes \union {NoHash}]
      /\ physical_addr' \in [Slots -> Nat \union {NoAddr}]
  BY DEF TInv, TableTyped
<1>4. ~ Stores(k)
  BY DEF Stores
<1>5. \A d \in Callers \ {c} : Stores(call[d]) => physical_addr'[At(call[d])] = NoAddr
  BY DEF TInv, CallsSound, CallSound, Stores
<1> QED BY <1>1, <1>2, <1>3, <1>4, <1>5, TInvCall

LEMMA TInvEnter ==
  ASSUME TInv, NEW c \in Callers, NEW h \in Hashes, NEW op \in {"register", "fold"}, Enter(c, op, h)
  PROVE  TInv'
<1> DEFINE known == Stored(h)
           k == [op |-> op, hash |-> h, addr |-> calls + 1, i |-> 0, known |-> known]
<1>1. calls \in Nat /\ calls + 1 \in Nat \ {0} /\ 0 \in 0 .. Window - 1
  BY FoldFacts DEF TInv, TableTyped
<1>2. known \in BOOLEAN /\ (known <=> Has(logic_hash, physical_addr, h))
  BY DEF Stored, Has
<1>3. /\ call' = [call EXCEPT ![c] = k] /\ logic_hash' = logic_hash
      /\ physical_addr' = physical_addr /\ calls' = calls + 1
      /\ owners' = IF op = "register" THEN owners \union {<<h, calls + 1>>} ELSE owners
  BY DEF Enter
<1>4. AnswersSound'
  BY DEF TInv, AnswersSound, AnswerSound, Enter
<1> HIDE DEF known
<1>5. k \in Calls
  BY <1>1, <1>2 DEF Calls
<1>6. CallSound(logic_hash, physical_addr, owners', k)
  <2>1. Behind(logic_hash, h, 0)
    BY DEF Behind
  <2>2. k.op = op /\ k.hash = h /\ k.addr = calls + 1 /\ k.i = 0 /\ k.known = known
    OBVIOUS
  <2>3. op = "register" => <<h, calls + 1>> \in owners'
    BY <1>3
  <2> HIDE DEF k
  <2> QED BY <1>2, <2>1, <2>2, <2>3 DEF CallSound
<1>7. k.op # "store" /\ owners \subseteq owners'
  BY <1>3
<1> HIDE DEF k
<1> QED BY <1>1, <1>3, <1>4, <1>5, <1>6, <1>7, TInvProbe

\* A fold that had to succeed meets its hash before an empty slot or the window's end.
LEMMA KnownFound ==
  ASSUME TInv, NEW c \in Callers, call[c] # NoCall, call[c].known
  PROVE  /\ logic_hash[Probed(c)] # NoHash
         /\ logic_hash[Probed(c)] = call[c].hash \/ call[c].i + 1 # Window
<1> DEFINE h == call[c].hash
           n == call[c].i
<1>1. /\ n \in Nat /\ n < Window /\ Probed(c) = Probe(h, n) /\ h # NoHash
      /\ Behind(logic_hash, h, n) /\ Has(logic_hash, physical_addr, h)
  <2>1. /\ call[c].i \in 0 .. Window - 1 /\ call[c].i \in Nat /\ Probed(c) = At(call[c])
        /\ call[c].hash # NoHash /\ CallSound(logic_hash, physical_addr, owners, call[c])
    BY CallTyped
  <2>2. call[c].i < Window
    BY <2>1, FoldFacts
  <2> QED BY <2>1, <2>2 DEF CallSound, At
<1>2. PICK s \in Slots : logic_hash[s] = h
  BY <1>1 DEF Has
<1>3. PICK i \in 0 .. Window - 1 : s = Probe(h, i) /\ Behind(logic_hash, h, i)
  BY <1>1, <1>2 DEF TInv, SlotsSound, HashSound
<1> HIDE DEF h, n
<1>4. ~ (i < n)
  <2> SUFFICES ASSUME i < n PROVE FALSE
    OBVIOUS
  <2>1. i \in 0 .. n - 1
    BY <1>1
  <2> QED BY <1>1, <1>2, <1>3, <2>1 DEF Behind
<1>5. CASE i = n
  BY <1>1, <1>2, <1>3, <1>5 DEF h
<1>6. CASE n < i
  <2>1. n \in 0 .. i - 1
    BY <1>1, <1>6
  <2>2. logic_hash[Probe(h, n)] # NoHash
    BY <1>3, <2>1 DEF Behind
  <2>3. n + 1 # Window
    BY <1>1, <1>6, FoldFacts
  <2> QED BY <1>1, <2>2, <2>3 DEF n
<1> QED BY <1>1, <1>4, <1>5, <1>6

\* The next probe, behind another key.
LEMMA TInvProceed ==
  ASSUME TInv, NEW c \in Callers, call[c] # NoCall, call[c].op \in {"register", "fold"}, Proceed(c),
         logic_hash[Probed(c)] \notin {NoHash, call[c].hash},
         UNCHANGED <<logic_hash, physical_addr, calls, owners>>, AnswersSound'
  PROVE  TInv'
<1> DEFINE next == call[c].i + 1
           k == IF next = Window THEN NoCall ELSE [call[c] EXCEPT !.i = next]
<1>1. call' = [call EXCEPT ![c] = k]
  BY DEF Proceed
<1>2. CASE next = Window
  <2>1. k = NoCall
    BY <1>2
  <2>2. calls' \in Nat
    BY DEF TInv, TableTyped
  <2> QED BY <1>1, <2>1, <2>2, TInvProbe
<1>3. CASE next # Window
  <2>0. /\ call[c] \in Calls /\ call[c].i \in Nat /\ call[c].i \in 0 .. Window - 1
        /\ Probed(c) = Probe(call[c].hash, call[c].i)
        /\ CallSound(logic_hash, physical_addr, owners, call[c])
    BY CallTyped DEF At
  <2>1. next \in 0 .. Window - 1
    BY <1>3, <2>0, FoldFacts
  <2>2. /\ k = [call[c] EXCEPT !.i = next] /\ k \in Calls /\ k.op = call[c].op /\ k.hash = call[c].hash
        /\ k.addr = call[c].addr /\ k.i = next /\ k.known = call[c].known
    BY <1>3, <2>0, <2>1 DEF Calls
  <2>3. Behind(logic_hash, call[c].hash, next)
    <3> SUFFICES ASSUME NEW j \in 0 .. next - 1
                 PROVE  logic_hash[Probe(call[c].hash, j)] \notin {NoHash, call[c].hash}
      BY DEF Behind
    <3>1. j \in 0 .. call[c].i - 1 \/ j = call[c].i
      BY <2>0
    <3> QED BY <2>0, <3>1 DEF CallSound, Behind
  <2> HIDE DEF k, next
  <2>4. CallSound(logic_hash, physical_addr, owners', k)
    BY <2>0, <2>2, <2>3 DEF CallSound
  <2>5. calls' \in Nat
    BY DEF TInv, TableTyped
  <2>6. k.op # "store"
    BY <2>2
  <2> QED BY <1>1, <2>2, <2>4, <2>5, <2>6, TInvProbe
<1> QED BY <1>2, <1>3

LEMMA TInvRegisterProbe ==
  ASSUME TInv, NEW c \in Callers, RegisterProbe(c)
  PROVE  TInv'
<1> DEFINE s == Probed(c)
           h == call[c].hash
<1>1. call[c].op = "register" /\ call[c] # NoCall
  BY DEF RegisterProbe, NoCall
<1>2. /\ call[c] \in Calls /\ h \in Hashes /\ h # NoHash /\ call[c].i \in 0 .. Window - 1
      /\ s = At(call[c]) /\ s \in Slots
      /\ CallSound(logic_hash, physical_addr, owners, call[c])
  BY <1>1, CallTyped
<1>3. UNCHANGED <<physical_addr, calls, answers, owners>> /\ calls' \in Nat
  BY DEF RegisterProbe, TInv, TableTyped
<1>4. CASE logic_hash[s] = NoHash
  <2> DEFINE k == [call[c] EXCEPT !.op = "store"]
  <2>1. logic_hash' = [logic_hash EXCEPT ![s] = h] /\ call' = [call EXCEPT ![c] = k]
    <3>1. logic_hash' = [logic_hash EXCEPT ![s] = h] /\ call' = [call EXCEPT ![c].op = "store"]
      BY <1>2, <1>4 DEF RegisterProbe
    <3> QED BY <3>1
  <2>2. /\ logic_hash' \in [Slots -> Hashes \union {NoHash}] /\ logic_hash'[s] = h
        /\ \A t \in Slots \ {s} : logic_hash'[t] = logic_hash[t]
        /\ physical_addr' \in [Slots -> Nat \union {NoAddr}]
    BY <1>2, <1>3, <2>1 DEF TInv, TableTyped
  <2>3. Grown(logic_hash, logic_hash') /\ Filled(physical_addr, physical_addr')
    BY <1>3, <1>4, <2>2 DEF Grown, Filled
  <2>4. physical_addr[s] = NoAddr
    BY <1>2, <1>4 DEF TInv, SlotsSound, AddrSound
  <2>5. SlotsSound'
    <3> SUFFICES ASSUME NEW t \in Slots
                 PROVE  HashSound(logic_hash', t)
                        /\ AddrSound(logic_hash', physical_addr', owners', t)
      BY DEF SlotsSound, HashSound, AddrSound, Behind, Probe
    <3>1. CASE t = s
      <4>1. HashSound(logic_hash', s)
        <5>1. Behind(logic_hash', h, call[c].i)
          <6>1. Behind(logic_hash, h, call[c].i) /\ call[c].i \in 0 .. Window
            BY <1>2, FoldFacts DEF CallSound
          <6> QED BY <1>2, <2>3, <6>1, OnceWritten
        <5> QED BY <1>2, <2>2, <5>1 DEF HashSound, At
      <4> QED BY <1>3, <2>4, <3>1, <4>1 DEF AddrSound
    <3>2. CASE t # s
      BY <1>3, <2>2, <2>3, <3>2, SlotKept DEF TInv, SlotsSound, AddrSound
    <3> QED BY <3>1, <3>2
  <2>6. AnswersSound'
    BY <1>3, <2>3, AnswerKept DEF TInv, AnswersSound
  <2>7. /\ k \in Calls /\ k.op = "store" /\ k.hash = h /\ k.i = call[c].i /\ k.addr = call[c].addr
        /\ k.known = call[c].known
    BY <1>2 DEF Calls
  <2> HIDE DEF k, h, s
  <2>8. At(k) = s
    BY <1>2, <2>7 DEF At, h
  <2>9. CallSound(logic_hash', physical_addr', owners', k)
    <3>1. Behind(logic_hash', h, k.i) /\ (k.known => Has(logic_hash', physical_addr', h))
      <4>1. Behind(logic_hash, h, k.i) /\ (k.known => Has(logic_hash, physical_addr, h))
            /\ k.i \in 0 .. Window
        BY <1>2, <2>7, FoldFacts DEF CallSound, h
      <4> QED BY <1>2, <2>3, <4>1, OnceWritten
    <3>2. <<h, k.addr>> \in owners'
      BY <1>1, <1>2, <1>3, <2>7 DEF CallSound, h
    <3> QED BY <1>3, <2>2, <2>4, <2>7, <2>8, <3>1, <3>2 DEF CallSound
  <2>10. ASSUME NEW d \in Callers \ {c}, Stores(call[d])
         PROVE  physical_addr'[At(call[d])] = NoAddr /\ At(k) # At(call[d])
    <3>1. logic_hash[At(call[d])] = call[d].hash /\ call[d].hash # NoHash
          /\ physical_addr[At(call[d])] = NoAddr
      BY <2>10, CallTyped DEF CallSound, Stores
    <3> QED BY <1>3, <1>4, <2>8, <3>1
  <2>11. \A d \in Callers \ {c} : Stores(call[d]) =>
            physical_addr'[At(call[d])] = NoAddr /\ (Stores(k) => At(k) # At(call[d]))
    BY <2>10
  <2>12. owners \subseteq owners' /\ calls' \in Nat
    BY <1>3
  <2>13. /\ call' = [call EXCEPT ![c] = k]
         /\ k \in Calls /\ CallSound(logic_hash', physical_addr', owners', k)
    BY <2>1, <2>7, <2>9
  <2>14. /\ logic_hash' \in [Slots -> Hashes \union {NoHash}]
         /\ physical_addr' \in [Slots -> Nat \union {NoAddr}]
    BY <2>2
  <2> QED BY <2>3, <2>5, <2>6, <2>11, <2>12, <2>13, <2>14, TInvCall
<1>5. CASE logic_hash[s] = h
  <2>1. call' = [call EXCEPT ![c] = NoCall] /\ logic_hash' = logic_hash
    BY <1>2, <1>5 DEF RegisterProbe, Return
  <2>2. AnswersSound'
    BY <1>3, <2>1 DEF TInv, AnswersSound, AnswerSound
  <2> QED BY <1>3, <2>1, <2>2, TInvProbe
<1>6. CASE logic_hash[s] \notin {NoHash, h}
  <2>1. Proceed(c) /\ logic_hash' = logic_hash
    BY <1>6 DEF RegisterProbe
  <2>2. AnswersSound'
    BY <1>3, <2>1 DEF TInv, AnswersSound, AnswerSound
  <2> QED BY <1>1, <1>3, <1>6, <2>1, <2>2, TInvProceed
<1> QED BY <1>4, <1>5, <1>6

LEMMA TInvRegisterStore ==
  ASSUME TInv, NEW c \in Callers, RegisterStore(c)
  PROVE  TInv'
<1> DEFINE s == Probed(c)
<1>1. call[c].op = "store" /\ call[c] # NoCall
  BY DEF RegisterStore, NoCall
<1>2. /\ call[c] \in Calls /\ call[c].hash # NoHash /\ call[c].addr \in Nat
      /\ s = At(call[c]) /\ s \in Slots
      /\ logic_hash[s] = call[c].hash /\ physical_addr[s] = NoAddr
      /\ <<call[c].hash, call[c].addr>> \in owners
  BY <1>1, CallTyped DEF CallSound
<1>3. /\ logic_hash' = logic_hash /\ UNCHANGED <<calls, answers, owners>> /\ calls' \in Nat
      /\ call' = [call EXCEPT ![c] = NoCall]
      /\ physical_addr' = [physical_addr EXCEPT ![s] = call[c].addr]
  BY DEF RegisterStore, Return, TInv, TableTyped
<1>4. /\ physical_addr' \in [Slots -> Nat \union {NoAddr}] /\ physical_addr'[s] = call[c].addr
      /\ \A t \in Slots \ {s} : physical_addr'[t] = physical_addr[t]
  BY <1>2, <1>3 DEF TInv, TableTyped
<1>5. Grown(logic_hash, logic_hash') /\ Filled(physical_addr, physical_addr')
  BY <1>2, <1>3, <1>4 DEF Grown, Filled
<1>6. SlotsSound'
  <2> SUFFICES ASSUME NEW t \in Slots
               PROVE  HashSound(logic_hash', t)
                      /\ AddrSound(logic_hash', physical_addr', owners', t)
    BY DEF SlotsSound, HashSound, AddrSound, Behind, Probe
  <2>1. HashSound(logic_hash', t)
    BY <1>3 DEF TInv, SlotsSound
  <2>2. CASE t = s
    BY <1>2, <1>3, <1>4, <2>1, <2>2 DEF AddrSound
  <2>3. CASE t # s
    BY <1>3, <1>4, <2>1, <2>3 DEF TInv, SlotsSound, AddrSound
  <2> QED BY <2>2, <2>3, <2>1
<1>7. AnswersSound'
  BY <1>3, <1>5, AnswerKept DEF TInv, AnswersSound
<1>8. ASSUME NEW d \in Callers \ {c}, Stores(call[d])
      PROVE  physical_addr'[At(call[d])] = NoAddr
  <2>1. At(call[d]) # s
    BY <1>1, <1>2, <1>8 DEF TInv, CallsSound, Stores
  <2>2. physical_addr[At(call[d])] = NoAddr /\ At(call[d]) \in Slots
    BY <1>8, CallTyped DEF CallSound, Stores
  <2> QED BY <1>4, <2>1, <2>2
<1>9. ~ Stores(NoCall) /\ logic_hash' \in [Slots -> Hashes \union {NoHash}]
  BY <1>3 DEF Stores, TInv, TableTyped
<1> QED BY <1>3, <1>4, <1>5, <1>6, <1>7, <1>8, <1>9, TInvCall

LEMMA TInvAnswer ==
  ASSUME TInv, NEW c \in Callers, NEW addr, Return(c), Answer(c, addr),
         UNCHANGED <<logic_hash, physical_addr, calls, owners>>,
         AnswerSound(logic_hash, physical_addr,
                     [hash |-> call[c].hash, addr |-> addr, known |-> call[c].known])
  PROVE  TInv'
<1>1. AnswersSound'
  BY DEF TInv, AnswersSound, Answer, AnswerSound
<1>2. call' = [call EXCEPT ![c] = NoCall] /\ calls' \in Nat
  BY DEF Return, TInv, TableTyped
<1> QED BY <1>1, <1>2, TInvProbe

LEMMA TInvFoldProbe ==
  ASSUME TInv, NEW c \in Callers, FoldProbe(c)
  PROVE  TInv'
<1> DEFINE s == Probed(c)
           h == call[c].hash
<1>1. call[c].op = "fold" /\ call[c] # NoCall
  BY DEF FoldProbe, NoCall
<1>2. /\ call[c] \in Calls /\ h # NoHash /\ s = At(call[c])
      /\ CallSound(logic_hash, physical_addr, owners, call[c])
  BY <1>1, CallTyped
<1>3. UNCHANGED <<logic_hash, physical_addr, calls, owners>> /\ calls' \in Nat
  BY DEF FoldProbe, TInv, TableTyped
<1>4. CASE logic_hash[s] = h
  <2> DEFINE k == [call[c] EXCEPT !.op = "load"]
  <2>1. call' = [call EXCEPT ![c] = k] /\ answers' = answers
    <3>1. call' = [call EXCEPT ![c].op = "load"] /\ answers' = answers
      BY <1>2, <1>4 DEF FoldProbe
    <3> QED BY <3>1
  <2>2. /\ k \in Calls /\ k.op = "load" /\ k.hash = h /\ k.i = call[c].i
        /\ k.known = call[c].known
    BY <1>2 DEF Calls
  <2>3. AnswersSound'
    BY <1>3, <2>1 DEF TInv, AnswersSound, AnswerSound
  <2> HIDE DEF k
  <2>4. At(k) = s
    BY <1>2, <2>2 DEF At
  <2>5. CallSound(logic_hash, physical_addr, owners', k)
    BY <1>2, <1>3, <1>4, <2>2, <2>4 DEF CallSound
  <2> QED BY <1>3, <2>1, <2>2, <2>3, <2>5, TInvProbe
<1>5. CASE logic_hash[s] = NoHash
  <2>1. Return(c) /\ Answer(c, NoAddr)
    BY <1>2, <1>5 DEF FoldProbe
  <2>2. ~ call[c].known
    BY <1>1, <1>5, KnownFound
  <2> QED BY <1>3, <2>1, <2>2, TInvAnswer DEF AnswerSound
<1>6. CASE logic_hash[s] \notin {NoHash, h}
  <2>1. Proceed(c) /\ IF call[c].i + 1 = Window THEN Answer(c, NoAddr) ELSE UNCHANGED answers
    BY <1>6 DEF FoldProbe
  <2>2. CASE call[c].i + 1 = Window
    <3>1. Return(c)
      BY <2>1, <2>2 DEF Proceed, Return
    <3>2. ~ call[c].known
      BY <1>1, <1>6, <2>2, KnownFound
    <3> QED BY <1>3, <2>1, <2>2, <3>1, <3>2, TInvAnswer DEF AnswerSound
  <2>3. CASE call[c].i + 1 # Window
    <3>1. AnswersSound'
      BY <1>3, <2>1, <2>3 DEF TInv, AnswersSound, AnswerSound
    <3> QED BY <1>1, <1>3, <1>6, <2>1, <3>1, TInvProceed
  <2> QED BY <2>2, <2>3
<1> QED BY <1>4, <1>5, <1>6

LEMMA TInvFoldLoad ==
  ASSUME TInv, NEW c \in Callers, FoldLoad(c)
  PROVE  TInv'
<1> DEFINE s == Probed(c)
           h == call[c].hash
           a == [hash |-> h, addr |-> physical_addr[s], known |-> call[c].known]
<1>1. call[c].op = "load" /\ call[c] # NoCall
  BY DEF FoldLoad, NoCall
<1>2. /\ h # NoHash /\ s \in Slots /\ logic_hash[s] = h
      /\ (call[c].known => Has(logic_hash, physical_addr, h))
  BY <1>1, CallTyped DEF CallSound
<1>3. ASSUME call[c].known PROVE physical_addr[s] # NoAddr
  <2>1. PICK t \in Slots : logic_hash[t] = h /\ physical_addr[t] # NoAddr
    BY <1>2, <1>3 DEF Has
  <2>2. t = s
    BY <1>2, <2>1, HashesApart DEF TInv, SlotsSound
  <2> QED BY <2>1, <2>2
<1>4. AnswerSound(logic_hash, physical_addr, a)
  BY <1>2, <1>3 DEF AnswerSound
<1> QED BY <1>4, TInvAnswer DEF FoldLoad

-----------------------------------------------------------------------------
(* The frames: only frames below the cursor have users, and a new user is told *)
(* from the earlier ones by its number.                                        *)

FrameRecords == [hash : Hashes \union {NoHash}, count : Nat, cold : BOOLEAN]
FramesTyped ==
  /\ frame_table \in [0 .. Frames - 1 -> FrameRecords]
  /\ cursor \in Nat /\ FirstFrame <= cursor /\ cursor <= Frames
UsersSound ==
  /\ IsFiniteSet(users)
  /\ \A u \in users : /\ u.frame \in FirstFrame .. cursor - 1
                      /\ u.nth \in Nat /\ u.nth < Cardinality(users)
FInv == FramesTyped /\ UsersSound /\ FramesCounted

UsersOf(f) == {u \in users : u.frame = f}
\* The frame f with record r counts its users: FramesCounted of one frame.
Counts(r, its, f) ==
  /\ r.count = Cardinality(its)
  /\ \A u \in its : u.hash = r.hash /\ f >= FirstFrame
  /\ Cardinality(its) > 1 => r.hash # NoHash

LEMMA FInvInit == FoldInit => FInv
<1> SUFFICES ASSUME FoldInit PROVE FInv
  OBVIOUS
<1> USE NoneAssumption
<1>1. /\ frame_table = [f \in 0 .. Frames - 1 |-> NoFrame] /\ cursor = FirstFrame /\ users = {}
      /\ NoFrame \in FrameRecords /\ NoFrame.count = 0
  BY DEF FoldInit, NoFrame, FrameRecords
<1>2. FramesTyped
  BY <1>1 DEF FramesTyped
<1>3. UsersSound
  BY <1>1, FS_EmptySet DEF UsersSound
<1>4. FramesCounted
  <2> SUFFICES ASSUME NEW f \in DOMAIN frame_table
               PROVE  /\ frame_table[f].count = Cardinality(UsersOf(f))
                      /\ \A u \in UsersOf(f) : u.hash = frame_table[f].hash /\ f >= FirstFrame
                      /\ Cardinality(UsersOf(f)) > 1 => frame_table[f].hash # NoHash
    BY DEF FramesCounted, UsersOf
  <2>1. UsersOf(f) = {} /\ frame_table[f].count = 0
    BY <1>1 DEF UsersOf
  <2> QED BY <2>1, FS_EmptySet
<1> QED BY <1>2, <1>3, <1>4 DEF FInv

LEMMA UsersCounted ==
  ASSUME FInv, NEW f \in 0 .. Frames - 1
  PROVE  /\ IsFiniteSet(UsersOf(f)) /\ Cardinality(UsersOf(f)) \in Nat
         /\ frame_table[f].count = Cardinality(UsersOf(f))
         /\ \A u \in UsersOf(f) : u.hash = frame_table[f].hash /\ f >= FirstFrame
         /\ Cardinality(UsersOf(f)) > 1 => frame_table[f].hash # NoHash
<1>1. IsFiniteSet(users) /\ UsersOf(f) \in SUBSET users
  BY DEF FInv, UsersSound, UsersOf
<1>2. IsFiniteSet(UsersOf(f)) /\ Cardinality(UsersOf(f)) \in Nat
  BY <1>1, FS_Subset, FS_CardinalityType
<1>3. f \in DOMAIN frame_table
  BY DEF FInv, FramesTyped
<1> QED BY <1>2, <1>3 DEF FInv, FramesCounted, UsersOf

\* A frame with the hash that is in use is given out again, or else the cursor's.
LEMMA FrameChosen ==
  ASSUME FInv, NEW same,
         NEW h, same = {f \in DOMAIN frame_table :
                          frame_table[f].hash = h /\ frame_table[f].count > 0},
         same # {}
  PROVE  LET f == CHOOSE f \in same : \A g \in same : f <= g
         IN  f \in same /\ f < cursor /\ f \in 0 .. Frames - 1 /\ FirstFrame <= f
<1> DEFINE f == CHOOSE f \in same : \A g \in same : f <= g
<1>1. same \in SUBSET Nat /\ same \in SUBSET (0 .. Frames - 1)
  BY DEF FInv, FramesTyped
<1>2. FirstOf(same) \in same
  BY <1>1, LeastElement
<1>3. f = FirstOf(same)
  BY DEF FirstOf
<1> HIDE DEF f
<1>4. f \in same /\ f \in 0 .. Frames - 1
  BY <1>1, <1>2, <1>3
<1>5. UsersOf(f) # {}
  <2>1. frame_table[f].count > 0
    BY <1>4
  <2>2. Cardinality(UsersOf(f)) # 0
    BY <1>4, <2>1, UsersCounted
  <2> QED BY <2>2, FS_EmptySet
<1>6. PICK u \in users : u.frame = f
  BY <1>5 DEF UsersOf
<1>7. f \in FirstFrame .. cursor - 1
  BY <1>6 DEF FInv, UsersSound
<1>8. f < cursor /\ FirstFrame <= f
  BY <1>7, NoneAssumption DEF FInv, FramesTyped
<1> QED BY <1>4, <1>8 DEF f

\* What giving out frame f as the record r does to the counts of all frames.
LEMMA FrameGiven ==
  ASSUME FInv, NEW f \in 0 .. Frames - 1, NEW h \in Hashes \union {NoHash}, NEW r \in FrameRecords,
         FirstFrame <= f, f <= cursor,
         r.hash = h /\ r.count = Cardinality(UsersOf(f)) + 1,
         UsersOf(f) # {} => h # NoHash /\ frame_table[f].hash = h,
         frame_table' = [frame_table EXCEPT ![f] = r],
         cursor' = IF f = cursor THEN cursor + 1 ELSE cursor,
         users' = users \union {[frame |-> f, hash |-> h, nth |-> Cardinality(users)]}
  PROVE  FInv'
<1> DEFINE new == [frame |-> f, hash |-> h, nth |-> Cardinality(users)]
<1> USE NoneAssumption
<1>1. /\ IsFiniteSet(users) /\ Cardinality(users) \in Nat
      /\ \A u \in users : u.frame \in FirstFrame .. cursor - 1 /\ u.nth \in Nat
                          /\ u.nth < Cardinality(users)
  BY FS_CardinalityType DEF FInv, UsersSound
<1>2. new \notin users
  <2> SUFFICES ASSUME new \in users PROVE FALSE
    OBVIOUS
  <2>1. new.nth < Cardinality(users) /\ new.nth = Cardinality(users)
    BY <1>1
  <2> QED BY <1>1, <2>1
<1>3. IsFiniteSet(users') /\ Cardinality(users') = Cardinality(users) + 1
  BY <1>1, <1>2, FS_AddElement
<1>4. cursor \in Nat /\ cursor' \in Nat /\ cursor <= cursor' /\ f < cursor' /\ cursor' <= Frames
      /\ FirstFrame <= cursor /\ FirstFrame <= cursor'
  BY DEF FInv, FramesTyped
<1>5. FramesTyped'
  BY <1>4 DEF FInv, FramesTyped
<1>6. UsersSound'
  <2> SUFFICES ASSUME NEW u \in users'
               PROVE  /\ u.frame \in FirstFrame .. cursor' - 1
                      /\ u.nth \in Nat /\ u.nth < Cardinality(users')
    BY <1>3 DEF UsersSound
  <2>1. CASE u \in users
    BY <1>1, <1>3, <1>4, <2>1
  <2>2. CASE u = new
    BY <1>1, <1>3, <1>4, <2>2
  <2> QED BY <2>1, <2>2
<1>7. FramesCounted'
  <2> SUFFICES ASSUME NEW g \in 0 .. Frames - 1
               PROVE  Counts(frame_table'[g], {u \in users' : u.frame = g}, g)
    BY <1>5 DEF FramesCounted, FramesTyped, Counts
  <2> DEFINE its == {u \in users' : u.frame = g}
  <2>0. frame_table \in [0 .. Frames - 1 -> FrameRecords]
    BY DEF FInv, FramesTyped
  <2>1. CASE g # f
    <3>1. its = UsersOf(g)
      BY <2>1 DEF UsersOf
    <3>2. frame_table'[g] = frame_table[g]
      BY <2>0, <2>1
    <3>3. Counts(frame_table[g], UsersOf(g), g)
      BY UsersCounted DEF Counts
    <3> QED BY <3>1, <3>2, <3>3
  <2>2. CASE g = f
    <3>1. its = UsersOf(f) \union {new} /\ new \notin UsersOf(f)
      BY <1>2, <2>2 DEF UsersOf
    <3>2. IsFiniteSet(UsersOf(f)) /\ Cardinality(UsersOf(f)) \in Nat
      BY UsersCounted
    <3>3. Cardinality(its) = Cardinality(UsersOf(f)) + 1
      BY <3>1, <3>2, FS_AddElement
    <3>4. frame_table'[g] = r
      BY <2>0, <2>2
    <3>5. \A u \in its : u.hash = h
      <4>1. \A u \in UsersOf(f) : u.hash = h
        BY UsersCounted
      <4> QED BY <3>1, <4>1
    <3>6. Cardinality(its) > 1 => h # NoHash
      <4>1. UsersOf(f) = {} => Cardinality(UsersOf(f)) = 0
        BY FS_EmptySet
      <4> QED BY <3>2, <3>3, <4>1
    <3>7. Counts(r, its, f)
      <4> HIDE DEF its
      <4> QED BY <3>3, <3>5, <3>6 DEF Counts
    <3> QED BY <2>2, <3>4, <3>7
  <2> QED BY <2>1, <2>2
<1> QED BY <1>5, <1>6, <1>7 DEF FInv

LEMMA FInvAllocate ==
  ASSUME FInv, NEW h \in Hashes \union {NoHash}, sys_pager_allocate_frame(h)
  PROVE  FInv'
<1> DEFINE same == {f \in DOMAIN frame_table :
                      frame_table[f].hash = h /\ frame_table[f].count > 0}
           f == IF h # NoHash /\ same # {} THEN CHOOSE f \in same : \A g \in same : f <= g
                ELSE cursor
<1>1. /\ f < Frames
      /\ frame_table' = IF f = cursor
                        THEN [frame_table EXCEPT ![f] = [hash |-> h, count |-> 1, cold |-> FALSE]]
                        ELSE [frame_table EXCEPT ![f].count = @ + 1]
      /\ cursor' = IF f = cursor THEN cursor + 1 ELSE cursor
      /\ users' = users \union {[frame |-> f, hash |-> h, nth |-> Cardinality(users)]}
  BY DEF sys_pager_allocate_frame
<1>2. /\ frame_table \in [0 .. Frames - 1 -> FrameRecords] /\ cursor \in Nat /\ FirstFrame \in Nat
      /\ FirstFrame <= cursor
  BY NoneAssumption DEF FInv, FramesTyped
<1>3. CASE h # NoHash /\ same # {}
  <2>1. f = CHOOSE k \in same : \A g \in same : k <= g
    BY <1>3
  <2>2. f \in same /\ f < cursor /\ f \in 0 .. Frames - 1 /\ FirstFrame <= f
    <3> HIDE DEF f
    <3> DEFINE all == same
    <3>1. all = {k \in DOMAIN frame_table : frame_table[k].hash = h /\ frame_table[k].count > 0}
      OBVIOUS
    <3>2. f = CHOOSE k \in all : \A g \in all : k <= g
      BY <2>1
    <3> HIDE DEF all
    <3>3. all # {}
      BY <1>3 DEF all
    <3> QED BY <3>1, <3>2, <3>3, FrameChosen DEF all
  <2> HIDE DEF f
  <2>3. frame_table[f].hash = h /\ frame_table[f] \in FrameRecords /\ f # cursor
    BY <1>2, <2>2
  <2> DEFINE r == [frame_table[f] EXCEPT !.count = frame_table[f].count + 1]
  <2>4. frame_table' = [frame_table EXCEPT ![f] = r]
    BY <1>1, <2>3
  <2>5. r \in FrameRecords /\ r.hash = h /\ r.count = frame_table[f].count + 1
    BY <2>3 DEF FrameRecords
  <2>6. r.count = Cardinality(UsersOf(f)) + 1
    BY <2>2, <2>5, UsersCounted
  <2> HIDE DEF r
  <2>7. f <= cursor
    BY <1>2, <2>2
  <2> QED BY <1>1, <1>3, <2>2, <2>3, <2>4, <2>5, <2>6, <2>7, FrameGiven
<1>4. CASE ~(h # NoHash /\ same # {})
  <2>1. f = cursor
    BY <1>4
  <2> HIDE DEF f
  <2> DEFINE r == [hash |-> h, count |-> 1, cold |-> FALSE]
  <2>2. f \in 0 .. Frames - 1 /\ FirstFrame <= f /\ f <= cursor
    BY <1>1, <1>2, <2>1, NoneAssumption
  <2>3. UsersOf(f) = {}
    <3> SUFFICES ASSUME NEW u \in users, u.frame = f PROVE FALSE
      BY DEF UsersOf
    <3>1. u.frame \in FirstFrame .. cursor - 1
      BY DEF FInv, UsersSound
    <3> QED BY <1>2, <2>1, <3>1
  <2>4. Cardinality(UsersOf(f)) = 0
    BY <2>3, FS_EmptySet
  <2>5. frame_table' = [frame_table EXCEPT ![f] = r]
    BY <1>1, <2>1
  <2>6. r \in FrameRecords /\ r.hash = h /\ r.count = Cardinality(UsersOf(f)) + 1
    BY <2>4 DEF FrameRecords
  <2> HIDE DEF r
  <2> QED BY <1>1, <2>2, <2>3, <2>5, <2>6, FrameGiven
<1> QED BY <1>3, <1>4

LEMMA FInvCold ==
  ASSUME FInv, NEW f \in DOMAIN frame_table, sys_pager_mark_cold(f)
  PROVE  FInv'
<1>1. /\ cursor' = cursor /\ users' = users
      /\ frame_table' = [frame_table EXCEPT ![f].cold = TRUE]
      /\ frame_table \in [0 .. Frames - 1 -> FrameRecords]
  BY DEF sys_pager_mark_cold, FInv, FramesTyped
<1>2. /\ frame_table' \in [0 .. Frames - 1 -> FrameRecords]
      /\ \A g \in 0 .. Frames - 1 : /\ frame_table'[g].count = frame_table[g].count
                                    /\ frame_table'[g].hash = frame_table[g].hash
  BY <1>1 DEF FrameRecords
<1>3. FramesTyped'
  BY <1>1, <1>2 DEF FInv, FramesTyped
<1>4. UsersSound'
  BY <1>1 DEF FInv, UsersSound
<1>5. FramesCounted'
  <2> SUFFICES ASSUME NEW g \in 0 .. Frames - 1
               PROVE  Counts(frame_table'[g], UsersOf(g), g)
    BY <1>1, <1>2 DEF FramesCounted, Counts, UsersOf
  <2>1. Counts(frame_table[g], UsersOf(g), g)
    BY UsersCounted DEF Counts
  <2> QED BY <1>2, <2>1 DEF Counts
<1> QED BY <1>3, <1>4, <1>5 DEF FInv

\* Only the folding's own steps move its variables.
LEMMA MetalFoldStep ==
  ASSUME [Next]_metalVars
  PROVE  \/ TableNext /\ UNCHANGED frameVars
         \/ FrameNext /\ UNCHANGED tableVars
         \/ UNCHANGED foldingVars
<1>1. CASE scenario = "table" /\ TableNext
  <2>1. TableNext => UNCHANGED frameVars
    BY DEF TableNext, Enter, RegisterProbe, RegisterStore, FoldProbe, FoldLoad
  <2> QED BY <1>1, <2>1
<1>2. CASE scenario = "frames" /\ FrameNext
  <2>1. FrameNext => UNCHANGED tableVars
    BY DEF FrameNext, sys_pager_allocate_frame, sys_pager_mark_cold
  <2> QED BY <1>2, <2>1
<1>3. Next => Fold \/ UNCHANGED foldingVars
  BY DEF Next, Rings, Line, OnConsole, Watch, Library, Drawings
<1>4. UNCHANGED metalVars => UNCHANGED foldingVars
  BY DEF metalVars
<1>5. Fold => (scenario = "table" /\ TableNext) \/ (scenario = "frames" /\ FrameNext)
  BY DEF Fold
<1> QED BY <1>1, <1>2, <1>3, <1>4, <1>5

FoldInv == TInv /\ FInv

LEMMA FoldInvNext ==
  ASSUME FoldInv, [Next]_metalVars
  PROVE  FoldInv'
<1>1. ASSUME UNCHANGED frameVars PROVE FInv'
  BY <1>1 DEF FoldInv, FInv, FramesTyped, UsersSound, FramesCounted, frameVars
<1>2. ASSUME UNCHANGED tableVars PROVE TInv'
  BY <1>2 DEF FoldInv, TInv, TableTyped, SlotsSound, CallsSound, AnswersSound, HashSound, AddrSound,
     CallSound, AnswerSound, tableVars
<1>3. ASSUME TableNext PROVE TInv'
  <2>1. PICK c \in Callers :
          \/ \E h \in Hashes : Enter(c, "register", h) \/ Enter(c, "fold", h)
          \/ RegisterProbe(c) \/ RegisterStore(c) \/ FoldProbe(c) \/ FoldLoad(c)
    BY <1>3 DEF TableNext
  <2> QED BY <2>1, TInvEnter, TInvRegisterProbe, TInvRegisterStore, TInvFoldProbe, TInvFoldLoad
          DEF FoldInv
<1>4. ASSUME FrameNext PROVE FInv'
  BY <1>4, FInvAllocate, FInvCold DEF FrameNext, FoldInv
<1>5. UNCHANGED foldingVars => UNCHANGED frameVars /\ UNCHANGED tableVars
  BY DEF foldingVars
<1> QED BY <1>1, <1>2, <1>3, <1>4, <1>5, MetalFoldStep DEF FoldInv

\* For any number of cores, buckets, window, hashes and frames: what cores fold at once is
\* one frame per hash, one that was registered, a hash that was stored is found, and
\* frames count their users.
THEOREM FoldingFoldsExact == Spec => []FoldsExact
<1>1. Init => FoldInv
  BY TInvInit, FInvInit DEF Init, FoldInv
<1>2. FoldInv /\ [Next]_metalVars => FoldInv'
  BY FoldInvNext
<1>3. FoldInv => FoldsExact
  BY TInvImplies DEF FoldInv, FInv, FoldsExact
<1> QED BY <1>1, <1>2, <1>3, PTL DEF Spec

-----------------------------------------------------------------------------
(* The watchdog: a beat that is not being stored is the core's last one or    *)
(* was cleared, and no time in the tables lies ahead of the clock.            *)

BeatSound(c) ==
  /\ beats[c] \in Nat /\ beats[c] <= clock
  /\ beaten[c] \in Nat /\ beaten[c] <= clock
  /\ pulse[c] \in {NoTime, beaten[c]}
  /\ pulse[c] = NoTime => beats[c] \in {0, beaten[c]}
WInv ==
  /\ clock \in Nat /\ clock < Word
  /\ DOMAIN beats = Watched /\ DOMAIN beaten = Watched /\ DOMAIN pulse = Watched
  /\ \A c \in Watched : BeatSound(c)
  /\ DOMAIN scan = {"now", "next", "failed"} /\ scan.next \in Nat \ {0}
  /\ scan.now = NoTime \/ (scan.now \in Nat /\ scan.now <= clock)
  /\ ReportsJustified

LEMMA WInvInit == HealthInit => WInv
  BY HealthAssumption DEF HealthInit, WInv, BeatSound, Watched, NoTime, ReportsJustified

\* A beat that the scan finds late, of its own age and no younger, is an old one.
LEMMA LateIsOld ==
  ASSUME WInv, NEW c \in Watched, scan.now # NoTime, Late(c), beats[c] <= scan.now,
         pulse[c] = NoTime
  PROVE  beaten[c] # 0 /\ scan.now - beaten[c] > Threshold
<1>0. beats[c] # 0 /\ (scan.now - beats[c]) % Word > Threshold
  BY DEF Late
<1>1. /\ beats[c] \in Nat /\ beats[c] # 0 /\ beats[c] = beaten[c]
      /\ scan.now \in Nat /\ scan.now < Word
  <2>1. scan.now \in Nat /\ scan.now <= clock /\ clock \in Nat /\ clock < Word
    BY DEF WInv
  <2>2. beats[c] \in Nat /\ beats[c] \in {0, beaten[c]}
    BY DEF WInv, BeatSound
  <2> HIDE DEF Late
  <2> QED BY <1>0, <2>1, <2>2, HealthAssumption
<1> DEFINE age == scan.now - beats[c]
<1>2. age \in 0 .. Word - 1 /\ Word \in Nat \ {0}
  BY <1>1, HealthAssumption
<1>3. age = age + 0 * Word
  BY <1>2
<1>4. age % Word > Threshold
  BY <1>0
<1> HIDE DEF age
<1>5. age % Word = age
  <2>1. (age + 0 * Word) % Word = age
    BY <1>2, QuotientRest
  <2> QED BY <1>3, <2>1
<1>6. age > Threshold
  BY <1>4, <1>5
<1> QED BY <1>1, <1>6 DEF age

LEMMA WInvScan ==
  ASSUME WInv, ScanCore \/ ScanClear \/ ScanEnd \/ ScanBegin
  PROVE  WInv'
<1>1. CASE ScanCore
  <2> DEFINE c == scan.next
  <2>1. c \in Watched /\ scan.now # NoTime /\ scan.now \in Nat /\ c \in Nat \ {0}
    BY <1>1, HealthAssumption DEF ScanCore, WInv, Watched
  <2>2. UNCHANGED <<clock, beats, pulse, beaten>>
    BY <1>1 DEF ScanCore
  <2>3. /\ scan'.now = scan.now /\ DOMAIN scan' = DOMAIN scan
        /\ scan'.next \in {c, c + 1}
    <3>1. \/ scan' = [scan EXCEPT !.failed = TRUE]
          \/ scan' = [scan EXCEPT !.next = c + 1]
      BY <1>1 DEF ScanCore
    <3> QED BY <2>1, <3>1 DEF WInv
  <2>4. ReportsJustified'
    <3>1. CASE Late(c)
      <4> DEFINE r == [core |-> c, racing |-> beats[c] > scan.now, storing |-> pulse[c] # NoTime,
                       silent |-> beaten[c] # 0 /\ scan.now - beaten[c] > Threshold]
      <4>1. reports' = reports \union {r}
        BY <1>1, <3>1 DEF ScanCore
      <4>2. beats[c] \in Nat
        BY <2>1 DEF WInv, BeatSound
      <4>3. beats[c] <= scan.now /\ pulse[c] = NoTime =>
              beaten[c] # 0 /\ scan.now - beaten[c] > Threshold
        <5> HIDE DEF c
        <5> QED BY <2>1, <3>1, LateIsOld
      <4>4. r.silent \/ r.racing \/ r.storing
        <5>1. \/ beats[c] > scan.now \/ pulse[c] # NoTime
              \/ beaten[c] # 0 /\ scan.now - beaten[c] > Threshold
          BY <2>1, <4>2, <4>3
        <5>2. /\ r.racing = (beats[c] > scan.now) /\ r.storing = (pulse[c] # NoTime)
              /\ r.silent = (beaten[c] # 0 /\ scan.now - beaten[c] > Threshold)
          BY Zenon
        <5> QED BY <5>1, <5>2, Zenon
      <4> HIDE DEF r
      <4> QED BY <4>1, <4>4 DEF WInv, ReportsJustified
    <3>2. CASE ~ Late(c)
      BY <1>1, <3>2 DEF ScanCore, WInv, ReportsJustified
    <3> QED BY <3>1, <3>2
  <2> QED BY <2>1, <2>2, <2>3, <2>4 DEF WInv, BeatSound
<1>2. CASE ScanClear
  <2>1. /\ UNCHANGED <<clock, pulse, reports, beaten>>
        /\ beats' = [beats EXCEPT ![scan.next] = 0]
        /\ scan' = [scan EXCEPT !.next = scan.next + 1, !.failed = FALSE]
    BY <1>2 DEF ScanClear
  <2>2. /\ DOMAIN beats' = Watched
        /\ \A c \in Watched : beats'[c] \in {0, beats[c]}
    BY <2>1 DEF WInv
  <2>3. \A c \in Watched : BeatSound(c)'
    BY <2>1, <2>2 DEF WInv, BeatSound
  <2>4. /\ DOMAIN scan' = DOMAIN scan /\ scan'.now = scan.now
        /\ scan'.next \in Nat \ {0}
    BY <2>1 DEF WInv
  <2> QED BY <2>1, <2>2, <2>3, <2>4 DEF WInv, ReportsJustified
<1>3. CASE ScanEnd \/ ScanBegin
  <2>1. UNCHANGED <<clock, beats, pulse, reports, beaten>>
    BY <1>3 DEF ScanEnd, ScanBegin
  <2>2. /\ DOMAIN scan' = {"now", "next", "failed"} /\ scan'.now \in {NoTime, clock}
        /\ scan'.next \in Nat \ {0}
    <3>1. \/ scan' = [scan EXCEPT !.now = NoTime]
          \/ scan' = [now |-> clock, next |-> 1, failed |-> FALSE]
      BY <1>3 DEF ScanEnd, ScanBegin
    <3> QED BY <3>1 DEF WInv
  <2> QED BY <2>1, <2>2 DEF WInv, BeatSound, ReportsJustified
<1> QED BY <1>1, <1>2, <1>3

LEMMA WInvPulse ==
  ASSUME WInv, NEW c \in Watched, PulseRead(c) \/ PulseStore(c)
  PROVE  WInv'
<1>1. UNCHANGED <<clock, scan, reports>>
  BY DEF PulseRead, PulseStore
<1>2. /\ DOMAIN beats' = Watched /\ DOMAIN beaten' = Watched /\ DOMAIN pulse' = Watched
      /\ \A d \in Watched : BeatSound(d)'
  <2>1. CASE PulseRead(c)
    <3>1. /\ beats' = beats
          /\ pulse' = [pulse EXCEPT ![c] = clock] /\ beaten' = [beaten EXCEPT ![c] = clock]
      BY <2>1 DEF PulseRead
    <3>2. clock \in Nat /\ clock # NoTime
      BY DEF WInv, NoTime
    <3> QED BY <1>1, <3>1, <3>2 DEF WInv, BeatSound
  <2>2. CASE PulseStore(c)
    <3>1. /\ beaten' = beaten /\ pulse[c] # NoTime
          /\ beats' = [beats EXCEPT ![c] = pulse[c]] /\ pulse' = [pulse EXCEPT ![c] = NoTime]
      BY <2>2 DEF PulseStore
    <3> QED BY <1>1, <3>1 DEF WInv, BeatSound
  <2> QED BY <2>1, <2>2
<1> QED BY <1>1, <1>2 DEF WInv, ReportsJustified

LEMMA WInvTick ==
  ASSUME WInv, Tick
  PROVE  WInv'
<1>1. /\ clock' = clock + 1 /\ clock' < Word /\ clock \in Nat
      /\ UNCHANGED <<beats, pulse, scan, reports, beaten>>
  BY HealthAssumption DEF Tick, WInv
<1> QED BY <1>1 DEF WInv, BeatSound, ReportsJustified

-----------------------------------------------------------------------------
(* The governor: what it remembers of its last change of level is that it     *)
(* rose above the target of the policy in force.                              *)
GInv ==
  /\ policy \in DOMAIN Targets /\ level \in 0 .. MaxLevel /\ updates \in Nat
  /\ tjMax \in Nat
  /\ turned.up => turned.temp \in Nat /\ turned.temp > Targets[policy]
  /\ DOMAIN modulation = {"bits", "rest"} /\ modulation.rest = "firmware's"
  /\ updates > 0 => (modulation.bits >= EnableBit <=> level > 0)

LEMMA GInvInit == HealthInit => GInv
<1> SUFFICES ASSUME HealthInit PROVE GInv
  OBVIOUS
<1>1. tjMax \in Nat
  BY HealthAssumption DEF HealthInit, Limit
<1> QED BY <1>1, HealthAssumption DEF HealthInit, GInv

\* The enable bit of the register is set exactly for a level above none.
LEMMA BrakedByLevel ==
  ASSUME NEW l \in 0 .. MaxLevel
  PROVE  Throttled(l) >= EnableBit <=> l > 0
<1>1. MaxLevel \in Nat /\ (MaxLevel + 1) % 2 = 0
  BY HealthAssumption
<1> DEFINE n == MaxLevel + 1
<1>2. n \in Nat \ {0} /\ n % 2 = 0
  BY <1>1
<1> HIDE DEF n
<1>3. PICK q \in Nat, r \in 0 .. 2 - 1 : n = r + q * 2 /\ n % 2 = r /\ n \div 2 = q
  BY <1>2, Division
<1>4. n = q * 2 /\ EnableBit = q /\ q > 0
  BY <1>2, <1>3 DEF EnableBit, n
<1>5. l \in Nat /\ l < n
  BY <1>1 DEF n
<1>6. Throttled(l) = IF l = 0 THEN 0 ELSE IF n - l < q THEN (n - l) + q ELSE n - l
  <2>1. MaxLevel + 1 - l = n - l
    BY <1>1, <1>5 DEF n
  <2> QED BY <1>4, <2>1 DEF Throttled
<1> QED BY <1>4, <1>5, <1>6

\* What the sensor is taken to say is a number of the word.
LEMMA TemperatureType ==
  ASSUME GInv, NEW r \in Readouts
  PROVE  Temperature(r) \in Nat
<1>1. tjMax - r \in Int /\ Word \in Nat \ {0}
  BY HealthAssumption DEF GInv
<1> DEFINE x == tjMax - r
<1>2. x \in Int
  BY <1>1
<1> HIDE DEF x
<1>3. x % Word \in 0 .. Word - 1
  BY <1>1, <1>2
<1> QED BY <1>1, <1>3 DEF Temperature, x

LEMMA GInvUpdate ==
  ASSUME GInv, NEW r \in Readouts, sys_governor_update(Temperature(r))
  PROVE  GInv'
<1> DEFINE t == Temperature(r)
<1>1. t \in Nat
  BY TemperatureType
<1>2. /\ policy \in DOMAIN Targets /\ Targets[policy] \in Nat /\ level \in 0 .. MaxLevel
      /\ updates \in Nat /\ MaxLevel \in Nat /\ Band \in Nat
  BY HealthAssumption DEF GInv
<1> HIDE DEF t
<1>3. /\ level' = Stepped(t) /\ updates' = updates + 1
      /\ turned' = IF level' = level THEN turned ELSE [up |-> level' > level, temp |-> t]
      /\ modulation' = [modulation EXCEPT !.bits = Throttled(level')]
      /\ policy' = policy /\ tjMax' = tjMax
  BY DEF sys_governor_update, sys_thermal_apply_throttle, t
<1>4. level' \in 0 .. MaxLevel /\ (level' > level => t > Targets[policy])
  BY <1>1, <1>2, <1>3 DEF Stepped
<1>5. turned'.up => turned'.temp \in Nat /\ turned'.temp > Targets[policy]
  <2>1. CASE level' = level
    BY <1>3, <2>1 DEF GInv
  <2>2. CASE level' # level
    <3>1. turned' = [up |-> level' > level, temp |-> t]
      BY <1>3, <2>2
    <3>2. turned'.temp = t /\ turned'.up = (level' > level)
      BY <3>1, Zenon
    <3>3. level' > level => turned'.temp \in Nat /\ turned'.temp > Targets[policy]
      BY <1>1, <1>4, <3>2
    <3> QED BY <3>2, <3>3, Zenon
  <2> QED BY <2>1, <2>2
<1>6. /\ DOMAIN modulation' = {"bits", "rest"} /\ modulation'.rest = "firmware's"
      /\ modulation'.bits = Throttled(level')
  BY <1>3 DEF GInv
<1>7. modulation'.bits >= EnableBit <=> level' > 0
  BY <1>4, <1>6, BrakedByLevel
<1>8. updates' \in Nat
  BY <1>2, <1>3
<1> QED BY <1>2, <1>3, <1>4, <1>5, <1>6, <1>7, <1>8 DEF GInv, EnableBit

LEMMA GInvPolicy ==
  ASSUME GInv, NEW p \in DOMAIN Targets, sys_governor_set_policy(p)
  PROVE  GInv'
<1>1. /\ policy' = p /\ level' = 0 /\ turned' = [up |-> FALSE, temp |-> 0]
      /\ updates' = updates + 1 /\ tjMax' = tjMax
      /\ modulation' = [modulation EXCEPT !.bits = Throttled(0)]
  BY DEF sys_governor_set_policy, sys_thermal_apply_throttle
<1>2. /\ DOMAIN modulation' = {"bits", "rest"} /\ modulation'.rest = "firmware's"
      /\ modulation'.bits = Throttled(0)
  BY <1>1 DEF GInv
<1>3. 0 \in 0 .. MaxLevel
  BY HealthAssumption
<1>4. modulation'.bits >= EnableBit <=> level' > 0
  <2>1. Throttled(0) >= EnableBit <=> 0 > 0
    BY <1>3, BrakedByLevel
  <2> QED BY <1>1, <1>2, <2>1
<1>5. updates' \in Nat
  BY <1>1 DEF GInv
<1>6. ~ turned'.up
  BY <1>1
<1> QED BY <1>1, <1>2, <1>3, <1>4, <1>5, <1>6 DEF GInv, EnableBit

\* The level goes down only below the band under the target above which it went up.
LEMMA DownAcrossBand ==
  ASSUME GInv, NEW r \in Readouts, sys_governor_update(Temperature(r)), level' < level, turned.up
  PROVE  turned.temp - Temperature(r) > Band
<1> DEFINE t == Temperature(r)
<1>1. t \in Nat
  BY TemperatureType
<1>2. /\ Targets[policy] \in Nat /\ level \in Nat /\ Band \in Nat
      /\ turned.temp \in Nat /\ turned.temp > Targets[policy]
  BY HealthAssumption DEF GInv
<1> HIDE DEF t
<1>3. level' = Stepped(t)
  BY DEF sys_governor_update, t
<1>4. t < Targets[policy] - Band
  BY <1>1, <1>2, <1>3 DEF Stepped
<1> QED BY <1>1, <1>2, <1>4 DEF t

\* Only the watchdog's and the governor's own steps move their variables.
LEMMA MetalHealthStep ==
  ASSUME [Next]_metalVars
  PROVE  \/ WatchNext /\ UNCHANGED govVars
         \/ GovernNext /\ UNCHANGED watchVars
         \/ UNCHANGED healthVars
<1>1. WatchNext => UNCHANGED govVars
  BY DEF WatchNext, Tick, ScanBegin, ScanCore, ScanClear, ScanEnd, PulseRead, PulseStore
<1>2. GovernNext => UNCHANGED watchVars
  BY DEF GovernNext, sys_governor_update, Scram, sys_governor_set_policy
<1>3. Next => Watch \/ UNCHANGED healthVars
  BY DEF Next, Rings, Line, OnConsole, Fold, Library, Drawings
<1>4. UNCHANGED metalVars => UNCHANGED healthVars
  BY DEF metalVars
<1>5. Watch => WatchNext \/ GovernNext
  BY DEF Watch
<1> QED BY <1>1, <1>2, <1>3, <1>4, <1>5

HealthInv == WInv /\ GInv

LEMMA HealthInvNext ==
  ASSUME HealthInv, [Next]_metalVars
  PROVE  HealthInv'
<1>1. ASSUME UNCHANGED watchVars PROVE WInv'
  BY <1>1 DEF HealthInv, WInv, BeatSound, ReportsJustified, watchVars
<1>2. ASSUME UNCHANGED govVars PROVE GInv'
  BY <1>2 DEF HealthInv, GInv, EnableBit, govVars
<1>3. ASSUME WatchNext PROVE WInv'
  BY <1>3, WInvTick, WInvScan, WInvPulse DEF HealthInv, WatchNext
<1>4. ASSUME GovernNext PROVE GInv'
  <2>1. CASE \E r \in Readouts : sys_governor_update(Temperature(r))
    BY <2>1, GInvUpdate DEF HealthInv
  <2>2. CASE \E r \in Readouts : Scram(Temperature(r))
    BY <2>2 DEF HealthInv, GInv, EnableBit, Scram
  <2>3. CASE \E p \in DOMAIN Targets : sys_governor_set_policy(p)
    BY <2>3, GInvPolicy DEF HealthInv
  <2> QED BY <1>4, <2>1, <2>2, <2>3 DEF GovernNext
<1>5. UNCHANGED healthVars => UNCHANGED watchVars /\ UNCHANGED govVars
  BY DEF healthVars
<1> QED BY <1>1, <1>2, <1>3, <1>4, <1>5, MetalHealthStep DEF HealthInv

LEMMA HealthInvAlways == Spec => []HealthInv
<1>1. Init => HealthInv
  BY WInvInit, GInvInit DEF Init, HealthInv
<1>2. HealthInv /\ [Next]_metalVars => HealthInv'
  BY HealthInvNext
<1> QED BY <1>1, <1>2, PTL DEF Spec

\* For any number of cores, threshold and width of the clock: a core reported late was
\* silent for the threshold, or its beat fell into the scan or was not stored yet.
THEOREM HealthReportsJustified == Spec => []ReportsJustified
<1>1. HealthInv => ReportsJustified
  BY DEF HealthInv, WInv
<1> QED BY <1>1, HealthInvAlways, PTL

\* For any targets, band and sensor: the level that rose falls only after the temperature
\* has crossed the band, and the register brakes the clock exactly while there is a level.
THEOREM HealthNoOscillation == Spec => NoOscillation
<1> DEFINE Turn == \A r \in Readouts :
             LET t == Temperature(r)
             IN  sys_governor_update(t) /\ level' < level /\ turned.up => turned.temp - t > Band
           Braked == /\ updates > 0 => (modulation.bits >= EnableBit <=> level > 0)
                     /\ level \in 0 .. MaxLevel /\ modulation.rest = "firmware's"
<1>1. HealthInv => Turn
  BY DownAcrossBand DEF HealthInv
<1>2. HealthInv => Braked
  BY DEF HealthInv, GInv
<1>3. HealthInv => [Turn]_healthVars
  BY <1>1
<1> HIDE DEF Turn, Braked
<1>4. []HealthInv => [][Turn]_healthVars /\ []Braked
  BY <1>2, <1>3, PTL
<1>5. [][Turn]_healthVars /\ []Braked => NoOscillation
  BY DEF Turn, Braked, NoOscillation
<1> QED BY <1>4, <1>5, HealthInvAlways, PTL

-----------------------------------------------------------------------------
(* The surface: a pixel's address is its own, and a tile's pixels are those  *)
(* whose coordinates divide to it.                                           *)

SurfaceWell ==
  /\ surface.width \in Nat /\ surface.height \in Nat /\ surface.stride \in Nat
  /\ surface.width <= surface.stride
  /\ DOMAIN surface = {"width", "height", "stride", "hardware", "pixels", "clear"}
  /\ DOMAIN surface.pixels = 0 .. surface.stride * surface.height - 1
PaintSound == painted \subseteq TileSet /\ elements \in Seq(Elements)
\* What a pixel shows, from the elements E, the tiles P and the colour of the last clear.
PixelSound(x, y, seen, width, clear, P, E) ==
  IF x >= width \/ <<x \div TileSize, y \div TileSize>> \notin P THEN seen = clear
  ELSE \A i \in DOMAIN E : Inside(<<x, y>>, E[i]) => \E j \in DOMAIN E : j >= i /\ seen = E[j].color
PixelNow(x, y) == PixelSound(x, y, surface.pixels[y * surface.stride + x], surface.width,
                             surface.clear, painted, elements)

PixelsSound == \A x \in 0 .. surface.stride - 1, y \in 0 .. surface.height - 1 : PixelNow(x, y)
SInv == SurfaceWell /\ PaintSound /\ PixelsSound

LEMMA CanvasFacts ==
  /\ LineAlign \in Nat \ {0} /\ TileSize \in Nat \ {0} /\ Tiles \in Nat \X Nat
  /\ Surfaces \subseteq Nat \X Nat /\ Terminals \subseteq Nat \X Nat
  /\ \A el \in Elements : el.x \in Int /\ el.y \in Int /\ el.w \in Int /\ el.h \in Int
BY CanvasAssumption

\* The address of a pixel: inside the pixels, and of no other.
LEMMA AddressIn ==
  ASSUME NEW s \in Nat, NEW h \in Nat, NEW x \in 0 .. s - 1, NEW y \in 0 .. h - 1
  PROVE  y * s + x \in 0 .. s * h - 1
<1>1. y * s + s <= h * s
  BY MultipleStep
<1>2. y * s \in Nat /\ h * s = s * h /\ s * h \in Nat
  OBVIOUS
<1> QED BY <1>1, <1>2

LEMMA AddressApart ==
  ASSUME NEW s \in Nat, NEW x \in 0 .. s - 1, NEW y \in Nat, NEW v \in 0 .. s - 1, NEW w \in Nat,
         y * s + x = w * s + v
  PROVE  x = v /\ y = w
<1>1. (y < w => y * s + s <= w * s) /\ (w < y => w * s + s <= y * s)
  BY MultipleStep
<1>2. y * s \in Nat /\ w * s \in Nat
  OBVIOUS
<1> QED BY <1>1, <1>2

\* A number lies in the tile it divides to, and in no other.
LEMMA TileOf ==
  ASSUME NEW x \in Nat, NEW k \in Nat
  PROVE  x \in k * TileSize .. k * TileSize + TileSize - 1 <=> x \div TileSize = k
<1>0. TileSize \in Nat \ {0}
  BY CanvasFacts
<1>1. PICK q \in Nat, r \in 0 .. TileSize - 1 : x = r + q * TileSize /\ x % TileSize = r /\ x \div TileSize = q
  BY <1>0, Division
<1>2. (q < k => q * TileSize + TileSize <= k * TileSize) /\ (k < q => k * TileSize + TileSize <= q * TileSize)
  BY <1>0, MultipleStep
<1>3. q * TileSize \in Nat /\ k * TileSize \in Nat
  BY <1>0
<1> QED BY <1>0, <1>1, <1>2, <1>3

LEMMA StrideCovers ==
  ASSUME NEW w \in Nat
  PROVE  Stride(w) \in Nat /\ w <= Stride(w)
<1>1. LineAlign \in Nat \ {0} /\ w + LineAlign - 1 \in Nat
  BY CanvasFacts
<1>2. PICK q \in Nat, r \in 0 .. LineAlign - 1 :
        w + LineAlign - 1 = r + q * LineAlign /\ (w + LineAlign - 1) \div LineAlign = q
  BY <1>1, Division
<1>3. q * LineAlign \in Nat
  BY <1>1
<1> QED BY <1>1, <1>2, <1>3 DEF Stride

LEMMA SInvInit == SurfaceInit => SInv
<1> SUFFICES ASSUME SurfaceInit PROVE SInv
  OBVIOUS
<1>1. PICK size \in Surfaces : surface = NewSurface(size)
  BY DEF SurfaceInit
<1>2. size[1] \in Nat /\ size[2] \in Nat
  BY CanvasFacts
<1>3. Stride(size[1]) \in Nat /\ size[1] <= Stride(size[1])
  BY <1>2, StrideCovers
<1> DEFINE s == Stride(size[1])
<1>4. /\ surface.width = size[1] /\ surface.height = size[2] /\ surface.stride = s
      /\ surface.pixels = [a \in 0 .. s * size[2] - 1 |-> 0] /\ surface.clear = 0
  BY <1>1 DEF NewSurface
<1>5. SurfaceWell
  BY <1>1, <1>2, <1>3, <1>4 DEF SurfaceWell, NewSurface
<1>6. PaintSound
  BY DEF PaintSound, SurfaceInit
<1>7. ASSUME NEW x \in 0 .. surface.stride - 1, NEW y \in 0 .. surface.height - 1
      PROVE  PixelNow(x, y)
  <2>1. y * s + x \in 0 .. s * size[2] - 1
    BY <1>2, <1>3, <1>4, AddressIn
  <2>2. surface.pixels[y * surface.stride + x] = surface.clear
    BY <2>1, <1>4
  <2> QED BY <2>2 DEF PixelNow, PixelSound, SurfaceInit
<1> QED BY <1>5, <1>6, <1>7 DEF SInv, PixelsSound

\* Filling the whole surface and forgetting what was painted.
LEMMA FilledApart ==
  ASSUME SInv, NEW color, painted' = {}, UNCHANGED elements,
         surface'.width = surface.width, surface'.height = surface.height,
         surface'.stride = surface.stride, surface'.clear = color,
         surface'.pixels = [a \in DOMAIN surface.pixels |-> color], DOMAIN surface' = DOMAIN surface
  PROVE  SInv'
<1>1. SurfaceWell' /\ PaintSound'
  BY DEF SInv, SurfaceWell, PaintSound
<1>2. ASSUME NEW x \in 0 .. surface.stride - 1, NEW y \in 0 .. surface.height - 1
      PROVE  PixelNow(x, y)'
  <2>1. y * surface.stride + x \in 0 .. surface.stride * surface.height - 1
    BY AddressIn DEF SInv, SurfaceWell
  <2>2. y * surface.stride + x \in DOMAIN surface.pixels
    BY <2>1 DEF SInv, SurfaceWell
  <2>3. surface'.pixels[y * surface'.stride + x] = surface'.clear
    BY <2>2
  <2> QED BY <2>3 DEF PixelNow, PixelSound
<1>3. PixelsSound'
  BY <1>2 DEF PixelsSound
<1> QED BY <1>1, <1>3 DEF SInv

LEMMA SInvNewElement ==
  ASSUME SInv, NEW el \in Elements, walia_element_new(el)
  PROVE  SInv'
<1>1. SurfaceWell' /\ PaintSound'
  BY AppendProperties DEF SInv, SurfaceWell, PaintSound, walia_element_new
<1>2. ASSUME NEW x \in 0 .. surface.stride - 1, NEW y \in 0 .. surface.height - 1
      PROVE  PixelNow(x, y)'
  BY DEF PixelsSound, SInv, PixelNow, PixelSound, walia_element_new
<1>3. PixelsSound'
  BY <1>2 DEF walia_element_new, PixelsSound
<1> QED BY <1>1, <1>3 DEF SInv

\* A tile's pixels are those that divide to it, and a visible element around one of them
\* meets the tile.
LEMMA PixelsDivide ==
  ASSUME NEW t \in TileSet, NEW x \in Nat, NEW y \in Nat, surface.width \in Nat, surface.height \in Nat
  PROVE  <<x, y>> \in PixelsOf(t) <=>
           /\ t = <<x \div TileSize, y \div TileSize>>
           /\ x < surface.width /\ y < surface.height
<1>0. TileSize \in Nat \ {0} /\ t[1] \in Nat /\ t[2] \in Nat /\ t = <<t[1], t[2]>>
  BY CanvasFacts DEF TileSet
<1>1. /\ x \in t[1] * TileSize .. t[1] * TileSize + TileSize - 1 <=> x \div TileSize = t[1]
      /\ y \in t[2] * TileSize .. t[2] * TileSize + TileSize - 1 <=> y \div TileSize = t[2]
  BY <1>0, TileOf
<1>2. <<x, y>> \in PixelsOf(t) <=>
        /\ x \in t[1] * TileSize .. t[1] * TileSize + TileSize - 1
        /\ y \in t[2] * TileSize .. t[2] * TileSize + TileSize - 1
        /\ x < surface.width /\ y < surface.height
  BY DEF PixelsOf
<1> QED BY <1>0, <1>1, <1>2

LEMMA InsideMeets ==
  ASSUME NEW t \in TileSet, NEW x \in Nat, NEW y \in Nat, t = <<x \div TileSize, y \div TileSize>>,
         NEW el \in Elements, Inside(<<x, y>>, el)
  PROVE  el.visible /\ Intersects(el, t)
<1>0. TileSize \in Nat \ {0} /\ t[1] \in Nat /\ t[2] \in Nat
  BY CanvasFacts DEF TileSet
<1>1. /\ x \in t[1] * TileSize .. t[1] * TileSize + TileSize - 1
      /\ y \in t[2] * TileSize .. t[2] * TileSize + TileSize - 1
  BY <1>0, TileOf
<1>2. t[1] * TileSize \in Nat /\ t[2] * TileSize \in Nat
  BY <1>0
<1>3. el.x \in Int /\ el.y \in Int /\ el.w \in Int /\ el.h \in Int
  BY CanvasFacts
<1>4. /\ el.visible /\ x >= el.x /\ x < el.x + el.w /\ y >= el.y /\ y < el.y + el.h
  BY DEF Inside
<1> QED BY <1>0, <1>1, <1>2, <1>3, <1>4 DEF Intersects

LEMMA SInvTile ==
  ASSUME SInv, NEW t \in TileSet, db_raster_render_tile(t)
  PROVE  SInv'
<1> DEFINE addresses == {Address(p) : p \in PixelsOf(t)}
           met == Met(t)
           top == CHOOSE i \in met : \A j \in met : j <= i
<1>1. /\ surface.width \in Nat /\ surface.height \in Nat /\ surface.stride \in Nat
      /\ surface.width <= surface.stride
      /\ DOMAIN surface.pixels = 0 .. surface.stride * surface.height - 1
      /\ t \notin painted /\ painted' = painted \cup {t} /\ elements' = elements
  BY DEF SInv, SurfaceWell, db_raster_render_tile
<1>2. elements \in Seq(Elements) /\ DOMAIN elements = 1 .. Len(elements) /\ Len(elements) \in Nat
  BY LenProperties DEF SInv, PaintSound
<1>3. met # {} => top \in met /\ \A j \in met : j <= top
  <2>1. met \in SUBSET (1 .. Len(elements))
    BY <1>2 DEF Met
  <2> HIDE DEF met
  <2>2. met # {} => \E i \in met : \A j \in met : j <= i
    BY <1>2, <2>1, Greatest
  <2> QED BY <2>2
<1>4. /\ surface'.width = surface.width /\ surface'.height = surface.height
      /\ surface'.stride = surface.stride /\ surface'.clear = surface.clear
      /\ DOMAIN surface' = DOMAIN surface
      /\ DOMAIN surface'.pixels = DOMAIN surface.pixels
      /\ \A a \in DOMAIN surface.pixels :
           surface'.pixels[a] = IF met # {} /\ a \in addresses THEN elements[top].color
                                ELSE surface.pixels[a]
  BY DEF SInv, SurfaceWell, db_raster_render_tile
<1>5. SurfaceWell' /\ PaintSound'
  BY <1>1, <1>4 DEF SInv, SurfaceWell, PaintSound
<1>6. ASSUME NEW x \in 0 .. surface.stride - 1, NEW y \in 0 .. surface.height - 1
      PROVE  PixelNow(x, y)'
  <2> DEFINE own == <<x \div TileSize, y \div TileSize>>
             a == y * surface.stride + x
  <2>1. x \in Nat /\ y \in Nat /\ y < surface.height
    BY <1>1
  <2>2. a \in DOMAIN surface.pixels
    BY <1>1, AddressIn
  <2>3. a \in addresses <=> own = t /\ x < surface.width
    <3>1. <<x, y>> \in PixelsOf(t) <=> own = t /\ x < surface.width
      BY <1>1, <2>1, PixelsDivide
    <3>2. <<x, y>> \in PixelsOf(t) => a \in addresses
      BY DEF Address
    <3>3. ASSUME NEW p \in PixelsOf(t), a = Address(p) PROVE p = <<x, y>>
      <4>1. t[1] * TileSize \in Nat /\ t[2] * TileSize \in Nat /\ TileSize \in Nat
        BY CanvasFacts DEF TileSet
      <4>2. p = <<p[1], p[2]>> /\ p[1] \in Nat /\ p[2] \in Nat /\ p[1] < surface.width
        BY <4>1 DEF PixelsOf
      <4>3. p[1] \in 0 .. surface.stride - 1 /\ y * surface.stride + x = p[2] * surface.stride + p[1]
        BY <4>2, <3>3, <1>1 DEF Address
      <4> QED BY <4>2, <4>3, <1>1, <2>1, AddressApart
    <3> QED BY <3>1, <3>2, <3>3
  <2>4. y * surface'.stride + x = a
    BY <1>4
  <2>5. PixelSound(x, y, surface.pixels[a], surface.width, surface.clear, painted, elements)
    BY DEF PixelsSound, SInv, PixelNow
  <2> HIDE DEF a, own, addresses, met, top
  <2>6. CASE ~(own = t /\ x < surface.width)
    <3>1. surface'.pixels[a] = surface.pixels[a]
      BY <2>2, <2>3, <2>6, <1>4
    <3>2. x >= surface.width \/ own \notin painted <=> x >= surface.width \/ own \notin painted'
      BY <2>6, <1>1, <2>1
    <3>3. PixelSound(x, y, surface.pixels[a], surface.width, surface.clear, painted', elements)
      BY <3>2, <2>5 DEF PixelSound, own
    <3> QED BY <3>1, <3>3, <2>4, <1>1, <1>4 DEF PixelNow
  <2>7. CASE own = t /\ x < surface.width
    <3>1. own \in painted' /\ ~(x >= surface.width)
      BY <2>7, <1>1, <2>1
    <3>2. ASSUME NEW i \in DOMAIN elements, Inside(<<x, y>>, elements[i])
          PROVE  \E j \in DOMAIN elements : j >= i /\ surface'.pixels[a] = elements[j].color
      <4>1. elements[i] \in Elements
        BY <1>2, ElementOfSeq
      <4>2. elements[i].visible /\ Intersects(elements[i], t)
        BY <4>1, <3>2, <2>1, <2>7, InsideMeets DEF own
      <4>3. i \in met
        BY <4>2 DEF met, Met
      <4>4. top \in DOMAIN elements /\ i <= top
        BY <4>3, <1>3 DEF met, Met
      <4>5. surface'.pixels[a] = elements[top].color
        BY <4>3, <2>2, <2>3, <2>7, <1>4
      <4> QED BY <4>4, <4>5, <1>2
    <3>3. PixelSound(x, y, surface'.pixels[a], surface.width, surface.clear, painted', elements)
      BY <3>1, <3>2 DEF PixelSound, own
    <3> QED BY <3>3, <2>4, <1>1, <1>4 DEF PixelNow
  <2> QED BY <2>6, <2>7
<1>7. PixelsSound'
  BY <1>6, <1>4 DEF PixelsSound
<1> QED BY <1>5, <1>7 DEF SInv

LEMMA SInvNext ==
  ASSUME SInv, SurfaceNext
  PROVE  SInv'
<1>1. CASE walia_surface_map_hardware
  <2>1. PICK p \in Paints :
          surface' = [surface EXCEPT !.hardware = TRUE, !.clear = p,
                                     !.pixels = [a \in DOMAIN @ |-> p]]
    BY <1>1 DEF walia_surface_map_hardware
  <2>2. /\ surface'.width = surface.width /\ surface'.height = surface.height
        /\ surface'.stride = surface.stride /\ surface'.clear = p
        /\ surface'.pixels = [a \in DOMAIN surface.pixels |-> p]
        /\ DOMAIN surface' = DOMAIN surface
    BY <2>1 DEF SInv, SurfaceWell
  <2> QED BY <2>2, <1>1, FilledApart DEF walia_surface_map_hardware
<1>2. ASSUME NEW p \in Paints, walia_surface_clear(p) PROVE SInv'
  <2>2. /\ surface'.width = surface.width /\ surface'.height = surface.height
        /\ surface'.stride = surface.stride /\ surface'.clear = p
        /\ surface'.pixels = [a \in DOMAIN surface.pixels |-> p]
        /\ DOMAIN surface' = DOMAIN surface
    BY <1>2 DEF SInv, SurfaceWell, walia_surface_clear
  <2> QED BY <2>2, <1>2, FilledApart DEF walia_surface_clear
<1>3. CASE db_raster_process_surface
  BY <1>3 DEF db_raster_process_surface, SInv, SurfaceWell, PaintSound, PixelsSound, PixelNow, PixelSound
<1> QED BY <1>1, <1>2, <1>3, SInvNewElement, SInvTile DEF SurfaceNext

LEMMA PixelwiseApart == PixelsSound <=> TilesApart
<1>1. \A x, y : Address(<<x, y>>) = y * surface.stride + x
  BY DEF Address
<1> QED BY <1>1 DEF TilesApart, PixelsSound, PixelSound, PixelNow

-----------------------------------------------------------------------------
(* The canvas: what is put on it, and a frame of it sent to the terminal.   *)

\* A sequence of sequences, put together.
LEMMA FlattenIs ==
  ASSUME NEW E, NEW q \in Seq(Seq(E))
  PROVE  FlattenSeq(q) \in Seq(E)
<1> DEFINE n == Len(q)
           A == Seq(E)
           F == [p \in A \X (1 .. n) |-> IF p[2] = 1 THEN q[1] ELSE p[1] \o q[p[2]]]
           Right(f) == f = [i \in 1 .. Len(q) |-> IF i = 1 THEN q[i] ELSE f[i - 1] \o q[i]]
           flatten == CHOOSE f : Right(f)
<1>1. n \in Nat /\ \A i \in 1 .. n : q[i] \in A
  BY LenProperties
<1>2. \A a \in A, b \in A : a \o b \in A
  BY ConcatProperties
<1>3. F \in [A \X (1 .. n) -> A] /\ <<>> \in A
  BY <1>1, <1>2
<1>4. CASE n = 0
  <2>1. q = <<>>
    BY <1>4, EmptySeq
  <2> QED BY <2>1, <1>4 DEF FlattenSeq
<1>5. CASE n # 0
  <2>1. PICK g \in [SUBSET (1 .. n) -> A] : Folds(g, n, <<>>, F)
    <3> HIDE DEF F, A, n
    <3> QED BY <1>1, <1>3, FoldExists
  <2>2. \A i \in 1 .. n : g[1 .. i] = F[<<g[1 .. i - 1], i>>]
    <3> HIDE DEF F, A, n
    <3>1. Steps(g, n, <<>>, F)
      BY ONLY <1>1, <2>1, FoldStep
    <3> QED BY <3>1 DEF Steps
  <2> DEFINE h == [i \in 1 .. n |-> g[1 .. i]]
  <2>3. \A i \in 1 .. n : g[1 .. i] \in A /\ g[1 .. i - 1] \in A
    <3>1. \A i \in 1 .. n : 1 .. i \in SUBSET (1 .. n) /\ 1 .. i - 1 \in SUBSET (1 .. n)
      OBVIOUS
    <3> QED BY <3>1, <2>1
  <2>4. ASSUME NEW i \in 1 .. n PROVE h[i] = IF i = 1 THEN q[i] ELSE h[i - 1] \o q[i]
    <3>1. h[i] = IF i = 1 THEN q[1] ELSE g[1 .. i - 1] \o q[i]
      BY <2>2, <2>3
    <3>2. i # 1 => i - 1 \in 1 .. n
      BY <1>1
    <3> QED BY <3>1, <3>2
  <2>5. Right(h)
    BY <2>4
  <2>6. Right(flatten)
    BY <2>5
  <2> HIDE DEF flatten
  <2>7. \A i \in 1 .. n : flatten[i] = IF i = 1 THEN q[i] ELSE flatten[i - 1] \o q[i]
    BY <2>6
  <2> HIDE DEF n, A
  <2> DEFINE Good == {i \in 0 .. n : i = 0 \/ flatten[i] \in A}
  <2>8. ASSUME NEW i \in 0 .. n - 1, i \in Good PROVE i + 1 \in Good
    <3>1. PICK j \in 1 .. n : j = i + 1
      BY <1>1
    <3>2. i = j - 1 /\ (j # 1 => i # 0) /\ q[j] \in A
      BY <3>1, <1>1
    <3>3. j # 1 => flatten[j - 1] \in A
      BY <3>2, <2>8
    <3>4. flatten[j] \in A
      BY <3>2, <3>3, <2>7, <1>2
    <3> QED BY <3>1, <3>4
  <2>9. flatten[n] \in A
    <3>1. 0 \in Good
      BY <1>1
    <3> HIDE DEF Good
    <3>2. \A i \in 0 .. n : i \in Good
      BY ONLY <3>1, <2>8, <1>1, CountUp
    <3>3. n \in Good
      BY <3>2, <1>1
    <3> QED BY <3>3, <1>5 DEF Good
  <2>10. FlattenSeq(q) = flatten[n]
    BY <1>5 DEF FlattenSeq, flatten, n
  <2> QED BY <2>9, <2>10 DEF A
<1> QED BY <1>4, <1>5

\* Drawing on a canvas puts cells in its places and adds none.
Canvases(w, h, D, C) == [width : {w}, height : {h}, cell : [D -> C]]

LEMMA PutKeeps ==
  ASSUME NEW w, NEW h, NEW D, NEW C, NEW c \in Canvases(w, h, D, C), NEW put, put.cell \in C
  PROVE  db_canvas_put(c, put) \in Canvases(w, h, D, C)
BY DEF db_canvas_put, Canvases

LEMMA DrawnOn ==
  ASSUME NEW w, NEW h, NEW D, NEW C, NEW c \in Canvases(w, h, D, C),
         NEW n \in Nat, NEW puts, DOMAIN puts = 1 .. n, \A i \in 1 .. n : puts[i].cell \in C
  PROVE  FoldLeft(db_canvas_put, c, puts) \in Canvases(w, h, D, C)
<1> DEFINE A == Canvases(w, h, D, C)
           F == [p \in A \X (1 .. n) |-> db_canvas_put(p[1], puts[p[2]])]
           Right(f) == f = [S \in SUBSET DOMAIN puts |->
                              IF S = {} THEN c ELSE db_canvas_put(f[S \ {Max(S)}], puts[Max(S)])]
           fold == CHOOSE f : Right(f)
<1>1. \A a \in A, i \in 1 .. n : db_canvas_put(a, puts[i]) \in A
  BY PutKeeps
<1>2. F \in [A \X (1 .. n) -> A]
  <2> HIDE DEF A
  <2> QED BY <1>1
<1> HIDE DEF A
<1>3. PICK g \in [SUBSET (1 .. n) -> A] : Folds(g, n, c, F)
  <2> HIDE DEF F
  <2>1. c \in A
    BY DEF A
  <2> QED BY <1>2, <2>1, FoldExists
<1>4. ASSUME NEW S \in SUBSET (1 .. n)
      PROVE  g[S] = IF S = {} THEN c ELSE db_canvas_put(g[S \ {Max(S)}], puts[Max(S)])
  <2>1. CASE S = {}
    BY <1>3, <2>1 DEF Folds
  <2>2. CASE S # {}
    <3>1. LastOf(S) \in 1 .. n /\ Max(S) = LastOf(S)
      BY <2>2, LastIs DEF Max, LastOf
    <3>2. S \ {LastOf(S)} \in SUBSET (1 .. n)
      OBVIOUS
    <3>3. g[S \ {LastOf(S)}] \in A
      BY <3>2
    <3>4. g[S] = F[<<g[S \ {LastOf(S)}], LastOf(S)>>]
      BY <1>3, <2>2 DEF Folds
    <3> QED BY <2>2, <3>1, <3>3, <3>4
  <2> QED BY <2>1, <2>2
<1>5. Right(g)
  BY <1>4
<1>6. Right(fold)
  BY <1>5
<1> HIDE DEF fold, F
<1>7. fold[1 .. 0] = c /\ \A i \in 1 .. n : fold[1 .. i] = db_canvas_put(fold[1 .. i - 1], puts[i])
  <2>1. 1 .. 0 = {} /\ {} \in SUBSET (1 .. n)
    OBVIOUS
  <2>2. ASSUME NEW i \in 1 .. n PROVE fold[1 .. i] = db_canvas_put(fold[1 .. i - 1], puts[i])
    <3>1. 1 .. i \in SUBSET (1 .. n) /\ 1 .. i # {} /\ i \in Nat \ {0}
      BY UpTo
    <3>2. Max(1 .. i) = i /\ (1 .. i) \ {i} = 1 .. i - 1
      BY <3>1, LastUpTo DEF Max, LastOf
    <3> QED BY <3>1, <3>2, <1>6
  <2> QED BY <2>1, <2>2, <1>6
<1> DEFINE Good == {i \in 0 .. n : fold[1 .. i] \in A}
<1>8. 0 \in Good
  BY <1>7 DEF A
<1>9. ASSUME NEW i \in 0 .. n - 1, i \in Good PROVE i + 1 \in Good
  <2>1. PICK j \in 1 .. n : j = i + 1 /\ i = j - 1
    OBVIOUS
  <2>2. fold[1 .. j] \in A
    BY <2>1, <1>1, <1>7, <1>9
  <2> QED BY <2>1, <2>2
<1>10. fold[1 .. n] \in A
  <2> HIDE DEF Good
  <2>1. n \in Nat
    OBVIOUS
  <2>2. \A i \in 0 .. n : i \in Good
    BY ONLY <2>1, <1>8, <1>9, CountUp
  <2>3. n \in Good
    BY <2>1, <2>2
  <2> QED BY <2>3 DEF Good
<1>11. FoldLeft(db_canvas_put, c, puts) = fold[DOMAIN puts]
  BY DEF FoldLeft, MapThenFoldSet, fold
<1> QED BY <1>10, <1>11 DEF A

-----------------------------------------------------------------------------
(* A frame sent to the terminal.                                             *)

\* Of the first i of the places P, one is not plain; and the weight b is the one the last
\* of them that sets a weight has set, or f when none has.
Coloured(c, P, i) == \E j \in 1 .. i : ~Plain(c.cell[P[j]])
TurnAt(c, P, j) == c.cell[P[j]].bold \/ (c.cell[P[j]].color = "default" /\ Coloured(c, P, j))
Turned(c, P, i, b, f) ==
  /\ (\A j \in 1 .. i : ~TurnAt(c, P, j)) => b = f
  /\ \A j \in 1 .. i : TurnAt(c, P, j) /\ (\A m \in 1 .. i : TurnAt(c, P, m) => m <= j) => b = c.cell[P[j]].bold

LEMMA TurnedStep ==
  ASSUME NEW c, NEW P, NEW k \in Nat, NEW n, n = k + 1, NEW b, NEW now, NEW f, Turned(c, P, k, b, f),
         TurnAt(c, P, n) => now = c.cell[P[n]].bold, ~TurnAt(c, P, n) => now = b
  PROVE  Turned(c, P, n, now, f)
<1>1. 1 .. n = (1 .. k) \union {n} /\ n \in Nat /\ \A j \in 1 .. k : j \in Nat /\ j < n
  OBVIOUS
<1>2. ASSUME \A j \in 1 .. n : ~TurnAt(c, P, j) PROVE now = f
  <2>1. now = b /\ \A j \in 1 .. k : ~TurnAt(c, P, j)
    BY <1>1, <1>2
  <2> QED BY <2>1 DEF Turned
<1>3. ASSUME NEW j \in 1 .. n, TurnAt(c, P, j), \A m \in 1 .. n : TurnAt(c, P, m) => m <= j
      PROVE  now = c.cell[P[j]].bold
  <2>1. CASE TurnAt(c, P, n)
    <3>1. n <= j
      BY <1>1, <1>3, <2>1
    <3>2. j = n
      BY <1>1, <3>1
    <3> QED BY <3>2, <2>1
  <2>2. CASE ~TurnAt(c, P, n)
    <3>1. j # n
      BY <1>3, <2>2
    <3>2. j \in 1 .. k
      BY <3>1, <1>1
    <3>3. \A m \in 1 .. k : TurnAt(c, P, m) => m <= j
      BY <1>1, <1>3
    <3>4. b = c.cell[P[j]].bold
      BY <3>2, <3>3, <1>3 DEF Turned
    <3> QED BY <3>4, <2>2
  <2> QED BY <2>1, <2>2
<1> QED BY <1>2, <1>3 DEF Turned

\* What has been sent after the first k of the places P, from the pen opened: each has its
\* character, its colour from the first one on that is not plain, and the weight that
\* was set last; and what the pen is for the next.
SentSound(acc, c, P, k, opened) ==
  /\ DOMAIN acc.shown = {P[i] : i \in 1 .. k}
  /\ \A i \in 1 .. k : /\ acc.shown[P[i]].char = c.cell[P[i]].char
                       /\ acc.shown[P[i]].color = IF Coloured(c, P, i) THEN c.cell[P[i]].color ELSE opened.color
                       /\ Turned(c, P, i, acc.shown[P[i]].bold, opened.bold)
  /\ ~Coloured(c, P, k) => acc.last = DefaultPen
  /\ acc.pen.color = IF Coloured(c, P, k) THEN acc.last.color ELSE opened.color
  /\ Turned(c, P, k, acc.pen.bold, opened.bold)
  /\ Coloured(c, P, k) /\ acc.last.color = "default" => acc.pen.bold = acc.last.bold
  /\ acc.last.bold => acc.pen.bold
  /\ acc.last.bold \in BOOLEAN /\ acc.pen.bold \in BOOLEAN

\* The pen after one more cell.
PenAfter(now, c, P, n, opened) ==
  /\ now.color = IF Coloured(c, P, n) THEN c.cell[P[n]].color ELSE opened.color
  /\ Turned(c, P, n, now.bold, opened.bold)
  /\ Coloured(c, P, n) /\ c.cell[P[n]].color = "default" => now.bold = c.cell[P[n]].bold
  /\ c.cell[P[n]].bold => now.bold
  /\ now.bold \in BOOLEAN

LEMMA PenSound ==
  ASSUME NEW acc, NEW c, NEW P, NEW k \in Nat, NEW n, n = k + 1, NEW opened, SentSound(acc, c, P, k, opened),
         c.cell[P[n]].bold \in BOOLEAN, NEW now, now = IF Sends(c.cell[P[n]], acc.last) THEN Recolored(acc.pen, c.cell[P[n]]) ELSE acc.pen
  PROVE  PenAfter(now, c, P, n, opened)
<1> DEFINE cell == c.cell[P[n]]
<1>1. 1 .. n = (1 .. k) \union {n}
  OBVIOUS
<1>2. Coloured(c, P, n) <=> Coloured(c, P, k) \/ ~Plain(cell)
  BY <1>1 DEF Coloured
<1>3. TurnAt(c, P, n) <=> cell.bold \/ (cell.color = "default" /\ Coloured(c, P, n))
  BY DEF TurnAt
<1>4. cell.bold \in BOOLEAN /\ acc.last.bold \in BOOLEAN /\ acc.pen.bold \in BOOLEAN
  BY DEF SentSound
<1>7. k \in Nat /\ n = k + 1 /\ Turned(c, P, k, acc.pen.bold, opened.bold)
  BY DEF SentSound
<1> HIDE DEF cell
<1>5. CASE Sends(cell, acc.last)
  <2>1. now.color = cell.color /\ now.bold = (cell.bold \/ (acc.pen.bold /\ cell.color # "default"))
    BY <1>5 DEF Recolored, cell
  <2>2. Coloured(c, P, n)
    <3>1. CASE Plain(cell)
      <4>1. acc.last # DefaultPen
        BY <3>1, <1>5, <1>4 DEF Plain, DefaultPen, Sends
      <4> QED BY <4>1, <1>2 DEF SentSound
    <3> QED BY <3>1, <1>2
  <2>3. cell.bold => now.bold
    BY <2>1
  <2>4. cell.bold = FALSE /\ cell.color # "default" => now.bold = acc.pen.bold
    <3> SUFFICES ASSUME cell.bold = FALSE, cell.color # "default" PROVE now.bold = acc.pen.bold
      OBVIOUS
    <3>1. now.bold = (FALSE \/ (acc.pen.bold /\ TRUE))
      BY <2>1
    <3> QED BY <3>1, <1>4
  <2>5. cell.color = "default" => now.bold = cell.bold
    <3> SUFFICES ASSUME cell.color = "default" PROVE now.bold = cell.bold
      OBVIOUS
    <3>1. now.bold = (cell.bold \/ (acc.pen.bold /\ FALSE))
      BY <2>1
    <3> QED BY <3>1, <1>4
  <2>6. now.bold \in BOOLEAN
    BY <2>1
  <2>7. TurnAt(c, P, n) => now.bold = cell.bold
    <3>1. cell.bold => now.bold = cell.bold
      BY <1>4, <2>3, <2>6
    <3> QED BY <1>3, <2>5, <3>1
  <2>8. ~TurnAt(c, P, n) => now.bold = acc.pen.bold
    BY <1>3, <1>4, <2>2, <2>4
  <2>9. Turned(c, P, n, now.bold, opened.bold)
    BY ONLY <1>7, <2>7, <2>8, TurnedStep DEF cell
  <2>10. now.color = IF Coloured(c, P, n) THEN cell.color ELSE opened.color
    BY <2>1, <2>2
  <2> QED BY ONLY <2>3, <2>5, <2>6, <2>9, <2>10 DEF cell, PenAfter
<1>6. CASE ~Sends(cell, acc.last)
  <2>1. cell.color = acc.last.color /\ cell.bold = acc.last.bold /\ now = acc.pen
    BY <1>6 DEF Sends, cell
  <2>2. Coloured(c, P, n) <=> Coloured(c, P, k)
    <3>1. CASE Plain(cell)
      BY <3>1, <1>2
    <3>2. CASE ~Plain(cell)
      <4>1. acc.last # DefaultPen
        BY <3>2, <2>1 DEF Plain, DefaultPen
      <4> QED BY <4>1, <1>2 DEF SentSound
    <3> QED BY <3>1, <3>2
  <2>3. now.color = IF Coloured(c, P, n) THEN cell.color ELSE opened.color
    BY <2>1, <2>2 DEF SentSound
  <2>4. Coloured(c, P, n) /\ cell.color = "default" => now.bold = cell.bold
    BY <2>1, <2>2 DEF SentSound
  <2>5. cell.bold => now.bold
    BY <2>1 DEF SentSound
  <2>6. TurnAt(c, P, n) => now.bold = cell.bold
    BY <1>3, <1>4, <2>1, <2>4, <2>5
  <2>8. ~TurnAt(c, P, n) => now.bold = acc.pen.bold
    BY <2>1
  <2>7. Turned(c, P, n, now.bold, opened.bold)
    BY ONLY <1>7, <2>6, <2>8, TurnedStep DEF cell
  <2> QED BY <1>4, <2>1, <2>3, <2>4, <2>5, <2>7 DEF cell, PenAfter
<1> QED BY <1>5, <1>6

LEMMA PrintedSound ==
  ASSUME NEW acc, NEW c, NEW P, NEW k \in Nat, NEW opened, SentSound(acc, c, P, k, opened),
         \A i, j \in 1 .. k + 1 : P[i] = P[j] => i = j,
         \A i \in 1 .. k + 1 : c.cell[P[i]].bold \in BOOLEAN
  PROVE  SentSound(Printed(c, acc, P[k + 1]), c, P, k + 1, opened)
<1>1. PICK n \in Nat : n = k + 1
  OBVIOUS
<1> DEFINE cell == c.cell[P[n]]
           now == IF Sends(cell, acc.last) THEN Recolored(acc.pen, cell) ELSE acc.pen
           seen == [char |-> cell.char, color |-> now.color, bold |-> now.bold]
           next == Printed(c, acc, P[n])
<1>2. /\ next.last = [color |-> cell.color, bold |-> cell.bold] /\ next.pen = now
      /\ DOMAIN next.shown = {P[n]} \union DOMAIN acc.shown
      /\ next.shown[P[n]] = seen
      /\ \A q \in DOMAIN acc.shown : q # P[n] => next.shown[q] = acc.shown[q]
  BY DEF Printed
<1>3. 1 .. n = (1 .. k) \union {n} /\ n \notin 1 .. k /\ n \in 1 .. n
  BY <1>1
<1>4. cell.bold \in BOOLEAN
  BY <1>1, <1>3
<1>5. /\ now.color = IF Coloured(c, P, n) THEN cell.color ELSE opened.color
      /\ Turned(c, P, n, now.bold, opened.bold)
      /\ Coloured(c, P, n) /\ cell.color = "default" => now.bold = cell.bold
      /\ cell.bold => now.bold
      /\ now.bold \in BOOLEAN
  <2>1. k \in Nat /\ SentSound(acc, c, P, k, opened) /\ c.cell[P[n]].bold \in BOOLEAN
    BY <1>4
  <2>2. PICK then : then = now
    OBVIOUS
  <2>3. PenAfter(then, c, P, n, opened)
    BY ONLY <1>1, <2>1, <2>2, PenSound
  <2> HIDE DEF now
  <2> QED BY ONLY <2>2, <2>3 DEF PenAfter, cell
<1>6. ASSUME ~Coloured(c, P, n) PROVE next.last = DefaultPen
  <2>1. cell.color = "default" /\ cell.bold = FALSE
    BY <1>6, <1>3, <1>4 DEF Plain, Coloured
  <2> QED BY <2>1, <1>2 DEF DefaultPen
<1>7. DOMAIN next.shown = {P[i] : i \in 1 .. n}
  <2>1. DOMAIN acc.shown = {P[i] : i \in 1 .. k}
    BY DEF SentSound
  <2>2. {P[i] : i \in 1 .. n} = {P[n]} \union {P[i] : i \in 1 .. k}
    BY <1>3
  <2> HIDE DEF next
  <2> QED BY <2>1, <2>2, <1>2
<1>8. ASSUME NEW i \in 1 .. k PROVE next.shown[P[i]] = acc.shown[P[i]]
  <2>1. i \in 1 .. k + 1 /\ n \in 1 .. k + 1 /\ i # n
    BY <1>1
  <2>2. P[i] # P[n] /\ P[i] \in DOMAIN acc.shown
    BY <2>1 DEF SentSound
  <2> QED BY <2>2, <1>2
<1>9. next.last.color = cell.color /\ next.last.bold = cell.bold /\ next.pen = now
      /\ next.shown[P[n]].char = cell.char /\ next.shown[P[n]].color = now.color
      /\ next.shown[P[n]].bold = now.bold
  BY <1>2
<1> HIDE DEF next, now
<1>10. ASSUME NEW i \in 1 .. n
       PROVE  /\ next.shown[P[i]].char = c.cell[P[i]].char
              /\ next.shown[P[i]].color = IF Coloured(c, P, i) THEN c.cell[P[i]].color ELSE opened.color
              /\ Turned(c, P, i, next.shown[P[i]].bold, opened.bold)
  <2>1. CASE i = n
    BY ONLY <2>1, <1>5, <1>9 DEF cell
  <2>2. CASE i # n
    <3>1. i \in 1 .. k
      BY <2>2, <1>3
    <3> QED BY <3>1, <1>8 DEF SentSound
  <2> QED BY <2>1, <2>2
<1>11. /\ next.pen.color = IF Coloured(c, P, n) THEN next.last.color ELSE opened.color
       /\ Turned(c, P, n, next.pen.bold, opened.bold)
       /\ Coloured(c, P, n) /\ next.last.color = "default" => next.pen.bold = next.last.bold
       /\ next.last.bold => next.pen.bold
       /\ next.last.bold \in BOOLEAN /\ next.pen.bold \in BOOLEAN
  BY ONLY <1>4, <1>5, <1>9
<1>12. SentSound(next, c, P, n, opened)
  BY ONLY <1>6, <1>7, <1>10, <1>11 DEF SentSound
<1> QED BY <1>1, <1>12 DEF next

CanvasWell(c) ==
  /\ c.width \in Nat /\ c.height \in Nat
  /\ DOMAIN c.cell = (0 .. c.width - 1) \X (0 .. c.height - 1)
  /\ \A p \in DOMAIN c.cell : c.cell[p].bold \in BOOLEAN

LEMMA PlaceAt ==
  ASSUME NEW w \in Nat, NEW h \in Nat, NEW i \in 1 .. w * h
  PROVE  \E x \in 0 .. w - 1, y \in 0 .. h - 1 :
           (i - 1) % w = x /\ (i - 1) \div w = y /\ i = x + y * w + 1
<1>1. w \in Nat \ {0}
  <2>1. w = 0 => w * h = 0
    OBVIOUS
  <2> QED BY <2>1
<1>2. i - 1 \in Nat
  OBVIOUS
<1>3. PICK q \in Nat, r \in 0 .. w - 1 : i - 1 = r + q * w /\ (i - 1) % w = r /\ (i - 1) \div w = q
  BY <1>1, <1>2, Division
<1>4. q * w \in Nat /\ w * h \in Nat /\ h * w = w * h
  OBVIOUS
<1>5. h < q => h * w + w <= q * w
  BY MultipleStep
<1>6. q < h
  BY <1>1, <1>3, <1>4, <1>5
<1>7. q \in 0 .. h - 1 /\ i = r + q * w + 1
  BY <1>3, <1>4, <1>6
<1> QED BY <1>3, <1>7

PlaceOf(i, w) == <<(i - 1) % w, (i - 1) \div w>>

LEMMA NumberOf ==
  ASSUME NEW w \in Nat, NEW h \in Nat, NEW x \in 0 .. w - 1, NEW y \in 0 .. h - 1
  PROVE  \E i \in 1 .. w * h : PlaceOf(i, w) = <<x, y>>
<1>1. y * w + x \in 0 .. w * h - 1
  BY AddressIn
<1>2. y * w \in Nat /\ w * h \in Nat /\ w \in Nat \ {0} /\ y \in Nat
  OBVIOUS
<1>3. x + y * w + 1 \in 1 .. w * h /\ x + y * w + 1 - 1 = x + y * w
  BY <1>1, <1>2
<1>4. (x + y * w) % w = x /\ (x + y * w) \div w = y
  BY <1>2, QuotientRest
<1>5. PICK i \in 1 .. w * h : i - 1 = x + y * w
  BY <1>3
<1>6. (i - 1) % w = x /\ (i - 1) \div w = y
  BY ONLY <1>4, <1>5
<1> QED BY <1>6 DEF PlaceOf

\* The places of a canvas, row by row: each once, in the order of Before.
PlacesListed(P, w, h) ==
  /\ w * h \in Nat /\ DOMAIN P = 1 .. w * h
  /\ \A i \in 1 .. w * h : P[i] \in (0 .. w - 1) \X (0 .. h - 1)
  /\ \A i, j \in 1 .. w * h : P[i] = P[j] => i = j
  /\ \A p \in (0 .. w - 1) \X (0 .. h - 1) : \E i \in 1 .. w * h : P[i] = p
  /\ \A i, j \in 1 .. w * h : Before(P[i], P[j]) <=> i <= j

LEMMA PlacesOrdered ==
  ASSUME NEW c, NEW w \in Nat, NEW h \in Nat, c.width = w, c.height = h
  PROVE  PlacesListed(Places(c), w, h)
<1> DEFINE P == Places(c)
<1>1. w * h \in Nat /\ DOMAIN P = 1 .. w * h
      /\ \A i \in 1 .. w * h : P[i] = <<(i - 1) % w, (i - 1) \div w>>
  BY DEF Places
<1> HIDE DEF P
<1>2. ASSUME NEW i \in 1 .. w * h
      PROVE  \E x \in 0 .. w - 1, y \in 0 .. h - 1 : P[i] = <<x, y>> /\ i = x + y * w + 1
  <2>1. PICK x \in 0 .. w - 1, y \in 0 .. h - 1 :
          (i - 1) % w = x /\ (i - 1) \div w = y /\ i = x + y * w + 1
    BY PlaceAt
  <2>2. P[i] = <<(i - 1) % w, (i - 1) \div w>>
    BY <1>1
  <2>3. P[i] = <<x, y>>
    BY ONLY <2>1, <2>2
  <2> QED BY <2>1, <2>3
<1>3. ASSUME NEW i \in 1 .. w * h, NEW j \in 1 .. w * h, P[i] = P[j] PROVE i = j
  BY <1>2, <1>3
<1>4. ASSUME NEW p \in (0 .. w - 1) \X (0 .. h - 1) PROVE \E i \in 1 .. w * h : P[i] = p
  <2>1. PICK x \in 0 .. w - 1, y \in 0 .. h - 1 : p = <<x, y>>
    OBVIOUS
  <2>2. PICK i \in 1 .. w * h : PlaceOf(i, w) = <<x, y>>
    BY NumberOf
  <2>3. P[i] = PlaceOf(i, w)
    BY <1>1 DEF PlaceOf
  <2>4. P[i] = p
    BY ONLY <2>1, <2>2, <2>3
  <2> QED BY <2>4
<1>5. ASSUME NEW i \in 1 .. w * h, NEW j \in 1 .. w * h, Before(P[i], P[j]) PROVE i <= j
  <2>1. PICK x \in 0 .. w - 1, a \in 0 .. h - 1 : P[i] = <<x, a>> /\ i = x + a * w + 1
    BY <1>2
  <2>2. PICK z \in 0 .. w - 1, b \in 0 .. h - 1 : P[j] = <<z, b>> /\ j = z + b * w + 1
    BY <1>2
  <2>3. a \in Nat /\ b \in Nat /\ x \in Nat /\ z \in Nat /\ x < w
    OBVIOUS
  <2>4. a < b => a * w + w <= b * w
    BY <2>3, MultipleStep
  <2>5. a < b \/ (a = b /\ x <= z)
    BY <1>5, <2>1, <2>2 DEF Before
  <2>6. a * w \in Nat /\ b * w \in Nat /\ (a = b => a * w = b * w)
    BY <2>3
  <2> QED BY <2>1, <2>2, <2>3, <2>4, <2>5, <2>6
<1>7. ASSUME NEW i \in 1 .. w * h, NEW j \in 1 .. w * h, i <= j PROVE Before(P[i], P[j])
  <2>1. PICK x \in 0 .. w - 1, a \in 0 .. h - 1 : P[i] = <<x, a>>
    BY <1>2
  <2>2. PICK z \in 0 .. w - 1, b \in 0 .. h - 1 : P[j] = <<z, b>>
    BY <1>2
  <2>3. Before(P[i], P[j]) \/ Before(P[j], P[i])
    BY <2>1, <2>2 DEF Before
  <2>4. CASE Before(P[j], P[i])
    <3>1. i = j
      BY <1>5, <1>7, <2>4
    <3> QED BY <3>1, <2>4
  <2> QED BY <2>3, <2>4
<1>6. ASSUME NEW i \in 1 .. w * h PROVE P[i] \in (0 .. w - 1) \X (0 .. h - 1)
  <2>1. PICK x \in 0 .. w - 1, y \in 0 .. h - 1 : P[i] = <<x, y>>
    BY <1>2
  <2> QED BY <2>1
<1> QED BY <1>1, <1>3, <1>4, <1>5, <1>6, <1>7 DEF P, PlacesListed

\* What the terminal is sent, from the pen it has.
Pens(c, pen) == {pen} \union [color : {c.cell[q].color : q \in DOMAIN c.cell}, bold : BOOLEAN]
Shows(c, pen) == [char : {c.cell[q].char : q \in DOMAIN c.cell},
                  color : {x.color : x \in Pens(c, pen)}, bold : {x.bold : x \in Pens(c, pen)}]
SentStates(c, pen) == [last : Pens(c, DefaultPen), pen : Pens(c, pen),
                       shown : UNION {[Q -> Shows(c, pen)] : Q \in SUBSET DOMAIN c.cell}]

LEMMA PrintedIn ==
  ASSUME NEW c, CanvasWell(c), NEW pen, NEW p \in DOMAIN c.cell, NEW a \in SentStates(c, pen)
  PROVE  Printed(c, a, p) \in SentStates(c, pen)
<1> DEFINE cell == c.cell[p]
           now == IF Sends(cell, a.last) THEN Recolored(a.pen, cell) ELSE a.pen
           seen == [char |-> cell.char, color |-> now.color, bold |-> now.bold]
           shown == [q \in {p} \union DOMAIN a.shown |-> IF q = p THEN seen ELSE a.shown[q]]
<1>0. a.last \in Pens(c, DefaultPen) /\ a.pen \in Pens(c, pen)
      /\ a.shown \in UNION {[Q -> Shows(c, pen)] : Q \in SUBSET DOMAIN c.cell}
  BY DEF SentStates
<1>1. cell.color \in {c.cell[q].color : q \in DOMAIN c.cell} /\ cell.bold \in BOOLEAN
  BY DEF CanvasWell
<1>2. now \in Pens(c, pen)
  BY <1>0, <1>1 DEF Recolored, Pens
<1>3. seen \in Shows(c, pen)
  <2> HIDE DEF now
  <2> QED BY <1>2 DEF Shows
<1>4. PICK Q \in SUBSET DOMAIN c.cell : a.shown \in [Q -> Shows(c, pen)]
  BY <1>0
<1>5. {p} \union Q \in SUBSET DOMAIN c.cell /\ shown \in [{p} \union Q -> Shows(c, pen)]
  <2> HIDE DEF seen
  <2> QED BY <1>3, <1>4
<1>6. shown \in UNION {[R -> Shows(c, pen)] : R \in SUBSET DOMAIN c.cell}
  <2> HIDE DEF shown
  <2> QED BY <1>5
<1>7. [color |-> cell.color, bold |-> cell.bold] \in Pens(c, DefaultPen)
  BY <1>1 DEF Pens
<1>8. Printed(c, a, p) = [last |-> [color |-> cell.color, bold |-> cell.bold], pen |-> now, shown |-> shown]
  BY DEF Printed
<1> HIDE DEF now, shown, cell
<1> QED BY <1>2, <1>6, <1>7, <1>8 DEF SentStates

\* The whole frame, place by place.
PenWell(pen) == pen.bold \in BOOLEAN

LEMMA SentIs ==
  ASSUME NEW c, NEW pen, PenWell(pen), NEW n \in Nat, CanvasWell(c), NEW P, P = Places(c), DOMAIN P = 1 .. n,
         \A i \in 1 .. n : P[i] \in DOMAIN c.cell,
         \A i, j \in 1 .. n : P[i] = P[j] => i = j
  PROVE  SentSound(Sent(c, pen), c, P, n, pen)
<1> DEFINE A == SentStates(c, pen)
           base == [last |-> DefaultPen, pen |-> pen, shown |-> <<>>]
           F == [p \in A \X (1 .. n) |-> Printed(c, p[1], P[p[2]])]
           Right(f) == f = [S \in SUBSET DOMAIN P |->
                              IF S = {} THEN base ELSE Printed(c, f[S \ {Max(S)}], P[Max(S)])]
           fold == CHOOSE f : Right(f)
<1>0. base \in A
  <2>1. <<>> \in [{} -> Shows(c, pen)] /\ {} \in SUBSET DOMAIN c.cell
    OBVIOUS
  <2>2. <<>> \in UNION {[Q -> Shows(c, pen)] : Q \in SUBSET DOMAIN c.cell}
    BY <2>1
  <2>3. DefaultPen \in Pens(c, DefaultPen) /\ pen \in Pens(c, pen)
    BY DEF Pens
  <2> QED BY <2>2, <2>3 DEF SentStates
<1>1. \A a \in A, i \in 1 .. n : Printed(c, a, P[i]) \in A
  BY PrintedIn
<1>2. F \in [A \X (1 .. n) -> A]
  <2> HIDE DEF A
  <2> QED BY <1>1
<1> HIDE DEF A, base
<1>3. PICK g \in [SUBSET (1 .. n) -> A] : Folds(g, n, base, F)
  <2> HIDE DEF F
  <2> QED BY <1>0, <1>2, FoldExists
<1>4. ASSUME NEW S \in SUBSET (1 .. n)
      PROVE  g[S] = IF S = {} THEN base ELSE Printed(c, g[S \ {Max(S)}], P[Max(S)])
  <2>1. CASE S = {}
    BY <1>3, <2>1 DEF Folds
  <2>2. CASE S # {}
    <3>1. LastOf(S) \in 1 .. n /\ Max(S) = LastOf(S)
      BY <2>2, LastIs DEF Max, LastOf
    <3>2. S \ {LastOf(S)} \in SUBSET (1 .. n)
      OBVIOUS
    <3>3. g[S \ {LastOf(S)}] \in A
      BY <3>2
    <3>4. g[S] = F[<<g[S \ {LastOf(S)}], LastOf(S)>>]
      BY <1>3, <2>2 DEF Folds
    <3> QED BY <2>2, <3>1, <3>3, <3>4
  <2> QED BY <2>1, <2>2
<1>5. Right(g)
  BY <1>4
<1>6. Right(fold)
  BY <1>5
<1> HIDE DEF fold, F
<1>7. fold[1 .. 0] = base /\ \A i \in 1 .. n : fold[1 .. i] = Printed(c, fold[1 .. i - 1], P[i])
  <2>1. 1 .. 0 = {} /\ {} \in SUBSET (1 .. n)
    OBVIOUS
  <2>2. ASSUME NEW i \in 1 .. n PROVE fold[1 .. i] = Printed(c, fold[1 .. i - 1], P[i])
    <3>1. 1 .. i \in SUBSET (1 .. n) /\ 1 .. i # {} /\ i \in Nat \ {0}
      BY <1>0, UpTo
    <3>2. Max(1 .. i) = i /\ (1 .. i) \ {i} = 1 .. i - 1
      BY <3>1, LastUpTo DEF Max, LastOf
    <3> QED BY <3>1, <3>2, <1>6
  <2> QED BY <2>1, <2>2, <1>6
<1> DEFINE Good == {i \in 0 .. n : SentSound(fold[1 .. i], c, P, i, pen)}
<1>8. 0 \in Good
  <2>1. base.shown = <<>> /\ base.last = DefaultPen /\ base.pen = pen
    BY DEF base
  <2>2. DOMAIN base.shown = {P[i] : i \in 1 .. 0} /\ 1 .. 0 = {}
    BY <2>1
  <2>3. base.last.bold = FALSE
    BY <2>1 DEF DefaultPen
  <2>4. ~Coloured(c, P, 0) /\ Turned(c, P, 0, pen.bold, pen.bold)
    BY <2>2 DEF Coloured, Turned
  <2>5. SentSound(base, c, P, 0, pen)
    BY <2>1, <2>2, <2>3, <2>4 DEF SentSound, PenWell
  <2> QED BY <2>5, <1>7
<1>9. ASSUME NEW i \in 0 .. n - 1, i \in Good PROVE i + 1 \in Good
  <2>1. PICK k \in Nat : k = i
    OBVIOUS
  <2>2. k + 1 \in 1 .. n /\ k + 1 - 1 = k
    BY <2>1
  <2>3. fold[1 .. k + 1] = Printed(c, fold[1 .. k], P[k + 1])
    BY <2>2, <1>7
  <2>4. /\ \A x, y \in 1 .. k + 1 : P[x] = P[y] => x = y
        /\ \A x \in 1 .. k + 1 : c.cell[P[x]].bold \in BOOLEAN
    <3>1. \A x \in 1 .. k + 1 : x \in 1 .. n
      BY <2>2
    <3>2. \A x \in 1 .. n : c.cell[P[x]].bold \in BOOLEAN
      BY DEF CanvasWell
    <3> QED BY <3>1, <3>2
  <2>5. SentSound(fold[1 .. k], c, P, k, pen)
    BY <2>1, <1>9
  <2>6. SentSound(Printed(c, fold[1 .. k], P[k + 1]), c, P, k + 1, pen)
    <3>1. k \in Nat
      OBVIOUS
    <3> QED BY ONLY <3>1, <2>4, <2>5, PrintedSound
  <2> QED BY <2>1, <2>2, <2>3, <2>6
<1>10. SentSound(fold[1 .. n], c, P, n, pen)
  <2> HIDE DEF Good
  <2>1. n \in Nat
    OBVIOUS
  <2>2. \A i \in 0 .. n : i \in Good
    BY ONLY <2>1, <1>8, <1>9, CountUp
  <2>3. n \in Good
    BY <2>1, <2>2
  <2> QED BY <2>3 DEF Good
<1>11. Sent(c, pen) = fold[DOMAIN P]
  BY DEF Sent, FoldLeft, MapThenFoldSet, fold, base
<1> QED BY <1>10, <1>11

-----------------------------------------------------------------------------
(* The dashboard's thread.                                                   *)

TermWell(term) ==
  /\ term.size \in Nat \X Nat
  /\ DOMAIN term = {"size", "pen", "opened", "cursor", "showing", "screen"}
  /\ term.pen.bold \in BOOLEAN
  /\ DOMAIN term.screen = (0 .. term.size[1] - 1) \X (0 .. term.size[2] - 1)
Fits(c, term) == c.width <= term.size[1] /\ c.height <= term.size[2]

\* The same by place and by number.
PlacesSent(c, P, n) ==
  /\ \A i \in 1 .. n : P[i] \in DOMAIN c.cell
  /\ \A p \in DOMAIN c.cell : \E i \in 1 .. n : P[i] = p
  /\ \A i, j \in 1 .. n : Before(P[i], P[j]) <=> i <= j

LEMMA TurnsSame ==
  ASSUME NEW c, NEW P, NEW n \in Nat, PlacesSent(c, P, n), NEW i \in 1 .. n
  PROVE  /\ Begun(c, P[i]) <=> Coloured(c, P, i)
         /\ \A j \in 1 .. i : TurnAt(c, P, j) <=> P[j] \in Turns(c, P[i])
         /\ \A q \in Turns(c, P[i]) : \E j \in 1 .. i : P[j] = q
<1>1. ASSUME NEW k \in 1 .. n PROVE Begun(c, P[k]) <=> Coloured(c, P, k)
  <2>1. ASSUME Coloured(c, P, k) PROVE Begun(c, P[k])
    <3>1. PICK j \in 1 .. k : ~Plain(c.cell[P[j]])
      BY <2>1 DEF Coloured
    <3>2. j \in 1 .. n /\ j <= k
      OBVIOUS
    <3>3. Before(P[j], P[k]) /\ P[j] \in DOMAIN c.cell
      BY <3>2 DEF PlacesSent
    <3> QED BY <3>1, <3>3 DEF Begun
  <2>2. ASSUME Begun(c, P[k]) PROVE Coloured(c, P, k)
    <3>1. PICK q \in DOMAIN c.cell : Before(q, P[k]) /\ ~Plain(c.cell[q])
      BY <2>2 DEF Begun
    <3>2. PICK j \in 1 .. n : P[j] = q
      BY DEF PlacesSent
    <3>3. j <= k
      BY <3>1, <3>2 DEF PlacesSent
    <3>4. j \in 1 .. k
      BY <3>3
    <3> QED BY <3>1, <3>2, <3>4 DEF Coloured
  <2> QED BY <2>1, <2>2
<1>2. ASSUME NEW j \in 1 .. i PROVE TurnAt(c, P, j) <=> P[j] \in Turns(c, P[i])
  <2>1. j \in 1 .. n /\ j <= i
    OBVIOUS
  <2>2. Before(P[j], P[i]) /\ P[j] \in DOMAIN c.cell
    BY <2>1 DEF PlacesSent
  <2>3. Begun(c, P[j]) <=> Coloured(c, P, j)
    BY <1>1, <2>1
  <2> QED BY <2>2, <2>3 DEF TurnAt, Turns
<1>3. ASSUME NEW q \in Turns(c, P[i]) PROVE \E j \in 1 .. i : P[j] = q
  <2>1. q \in DOMAIN c.cell /\ Before(q, P[i])
    BY DEF Turns
  <2>2. PICK j \in 1 .. n : P[j] = q
    BY <2>1 DEF PlacesSent
  <2>3. j <= i
    BY <2>1, <2>2 DEF PlacesSent
  <2>4. j \in 1 .. i
    BY <2>3
  <2> QED BY <2>2, <2>4
<1> QED BY <1>1, <1>2, <1>3

LEMMA LooksSo ==
  ASSUME NEW c, NEW P, NEW n \in Nat, PlacesSent(c, P, n), NEW i \in 1 .. n, NEW opened, NEW shown,
         shown.char = c.cell[P[i]].char,
         shown.color = IF Coloured(c, P, i) THEN c.cell[P[i]].color ELSE opened.color,
         Turned(c, P, i, shown.bold, opened.bold)
  PROVE  LooksAs(c, opened, P[i], shown)
<1>1. /\ Begun(c, P[i]) <=> Coloured(c, P, i)
      /\ \A j \in 1 .. i : TurnAt(c, P, j) <=> P[j] \in Turns(c, P[i])
      /\ \A q \in Turns(c, P[i]) : \E j \in 1 .. i : P[j] = q
  BY TurnsSame
<1>2. ASSUME Turns(c, P[i]) = {} PROVE shown.bold = opened.bold
  BY <1>1, <1>2 DEF Turned
<1>3. ASSUME NEW q \in Turns(c, P[i]), \A r \in Turns(c, P[i]) : Before(r, q)
      PROVE  shown.bold = c.cell[q].bold
  <2>1. PICK j \in 1 .. i : P[j] = q
    BY <1>1
  <2>2. ASSUME NEW m \in 1 .. i, TurnAt(c, P, m) PROVE m <= j
    <3>1. Before(P[m], P[j])
      BY <1>1, <1>3, <2>1, <2>2
    <3>2. m \in 1 .. n /\ j \in 1 .. n
      OBVIOUS
    <3> QED BY <3>1, <3>2 DEF PlacesSent
  <2>3. TurnAt(c, P, j)
    BY <1>1, <2>1
  <2> QED BY <2>1, <2>2, <2>3 DEF Turned
<1> QED BY <1>1, <1>2, <1>3 DEF LooksAs

LEMMA RenderedShows ==
  ASSUME NEW term, NEW c, TermWell(term), CanvasWell(c), Fits(c, term)
  PROVE  TermWell(Rendered(term, c)) /\ FrameOn(Rendered(term, c), c)
<1> DEFINE w == c.width
           h == c.height
           n == c.width * c.height
           P == Places(c)
           sent == Sent(c, term.pen)
           bottom == term.size[2] - 1
           lost == Most(0, c.height - bottom)
           grid == [p \in DOMAIN term.screen |->
                      IF p \in DOMAIN sent.shown THEN sent.shown[p] ELSE term.screen[p]]
           T == Rendered(term, c)
<1>1. w \in Nat /\ h \in Nat /\ DOMAIN c.cell = (0 .. w - 1) \X (0 .. h - 1)
      /\ w <= term.size[1] /\ h <= term.size[2] /\ term.size[1] \in Nat /\ term.size[2] \in Nat
  BY DEF CanvasWell, Fits, TermWell
<1>2. PlacesListed(P, w, h)
  BY <1>1, PlacesOrdered
<1>3. SentSound(sent, c, P, n, term.pen)
  <2>1. /\ n \in Nat /\ DOMAIN P = 1 .. n /\ \A i \in 1 .. n : P[i] \in DOMAIN c.cell
        /\ \A i, j \in 1 .. n : P[i] = P[j] => i = j
    BY <1>1, <1>2 DEF PlacesListed
  <2>2. PenWell(term.pen)
    BY DEF TermWell, PenWell
  <2> QED BY <2>1, <2>2, SentIs DEF sent
<1> HIDE DEF P, sent, n
<1>4. /\ T.size = term.size /\ T.showing = TRUE /\ DOMAIN T = DOMAIN term
      /\ T.opened = term.pen /\ T.pen = sent.pen
      /\ T.screen = [p \in DOMAIN grid |->
                       IF p[2] + lost <= bottom THEN grid[<<p[1], p[2] + lost>>] ELSE EmptyCell]
  BY DEF Rendered, TermWell, sent
<1> HIDE DEF T, grid
<1>5. DOMAIN grid = DOMAIN term.screen
  BY DEF grid
<1>6. TermWell(T)
  BY <1>3, <1>4, <1>5 DEF TermWell, SentSound
<1>7. lost \in Nat /\ lost = Most(0, c.height - (T.size[2] - 1)) /\ h - lost <= bottom
      /\ (lost = 0 \/ lost = h - bottom)
  BY <1>1, <1>4 DEF Most
<1>8. ASSUME NEW p \in DOMAIN c.cell, p[2] >= lost
      PROVE  T.screen[<<p[1], p[2] - lost>>] = sent.shown[p]
  <2>1. PICK x \in 0 .. w - 1, y \in 0 .. h - 1 : p = <<x, y>>
    BY <1>1
  <2>2. y - lost \in 0 .. term.size[2] - 1 /\ x \in 0 .. term.size[1] - 1 /\ y - lost + lost = y
        /\ y \in 0 .. term.size[2] - 1 /\ y <= bottom
    BY <2>1, <1>1, <1>7, <1>8
  <2> HIDE DEF lost, bottom
  <2>3. <<x, y - lost>> \in DOMAIN grid /\ <<x, y>> \in DOMAIN grid
    BY <2>2, <1>5 DEF TermWell
  <2>4. T.screen[<<x, y - lost>>] = grid[<<x, y>>]
    BY <2>2, <2>3, <1>4
  <2>5. p \in DOMAIN sent.shown
    <3>1. PICK i \in 1 .. n : P[i] = p
      BY <1>1, <1>2 DEF PlacesListed, n
    <3> QED BY <3>1, <1>3 DEF SentSound
  <2>6. grid[<<x, y>>] = sent.shown[p]
    BY <2>1, <2>3, <2>5, <1>5 DEF grid
  <2> QED BY <2>1, <2>4, <2>6
<1>9. ASSUME NEW p \in DOMAIN c.cell PROVE LooksAs(c, T.opened, p, sent.shown[p])
  <2>1. PICK i \in 1 .. n : P[i] = p
    BY <1>1, <1>2 DEF PlacesListed, n
  <2>2. PlacesSent(c, P, n)
    BY <1>1, <1>2 DEF PlacesListed, PlacesSent, n
  <2>3. /\ sent.shown[P[i]].char = c.cell[P[i]].char
        /\ sent.shown[P[i]].color = IF Coloured(c, P, i) THEN c.cell[P[i]].color ELSE T.opened.color
        /\ Turned(c, P, i, sent.shown[P[i]].bold, T.opened.bold)
    BY <1>3, <1>4 DEF SentSound
  <2>4. n \in Nat
    BY <1>1 DEF n
  <2>5. LooksAs(c, T.opened, P[i], sent.shown[P[i]])
    BY <2>2, <2>3, <2>4, LooksSo
  <2> QED BY <2>1, <2>5
<1>10. FrameOn(T, c)
  <2> HIDE DEF lost
  <2> QED BY <1>7, <1>8, <1>9 DEF FrameOn
<1> QED BY <1>6, <1>10 DEF T

-----------------------------------------------------------------------------
(* What a round draws.                                                       *)
Marks == {"-", "|", "P", "G", "H", "R", "W", "S", "N", "#", ".", ">", "=", " "}
Inks == {"gray", "white", "cyan", "magenta", "red", "yellow", "green", "default"}
CellsOf(Ch) == [char : Ch, color : Inks, bold : BOOLEAN]
PutsOf(Ch) == [at : Int \X Int, cell : CellsOf(Ch)]

LEMMA PutIs ==
  ASSUME NEW Ch, NEW x \in Int, NEW y \in Int, NEW char \in Ch, NEW color \in Inks, NEW bold \in BOOLEAN
  PROVE  Put(x, y, char, color, bold) \in PutsOf(Ch)
BY DEF Put, PutsOf, CellsOf

LEMMA SeqFrom ==
  ASSUME NEW E, NEW n \in Nat, NEW q \in [1 .. n -> E]
  PROVE  q \in Seq(E)
BY SeqDef

LEMMA OneIs ==
  ASSUME NEW E, NEW e \in E
  PROVE  <<e>> \in Seq(E)
OBVIOUS

LEMMA TwoIs ==
  ASSUME NEW E, NEW e \in E, NEW f \in E
  PROVE  <<e, f>> \in Seq(E)
OBVIOUS

LEMMA TextIs ==
  ASSUME NEW Ch, NEW x \in Int, NEW y \in Int, NEW words \in Seq(Ch), NEW color \in Inks
  PROVE  DrawText(x, y, words, color) \in Seq(PutsOf(Ch))
<1>1. DOMAIN words = 1 .. Len(words) /\ Len(words) \in Nat /\ \A i \in 1 .. Len(words) : words[i] \in Ch
  BY LenProperties, ElementOfSeq
<1>2. ASSUME NEW i \in 1 .. Len(words) PROVE Put(x + i - 1, y, words[i], color, FALSE) \in PutsOf(Ch)
  <2>1. x + i - 1 \in Int /\ words[i] \in Ch /\ FALSE \in BOOLEAN
    BY <1>1
  <2> QED BY <2>1, PutIs
<1>3. DrawText(x, y, words, color) \in [1 .. Len(words) -> PutsOf(Ch)]
  BY <1>1, <1>2 DEF DrawText
<1> QED BY <1>1, <1>3, SeqFrom

LEMMA FrameIs ==
  ASSUME NEW Ch, Marks \subseteq Ch, NEW x \in Int, NEW y \in Int, NEW w \in Nat, NEW h \in Nat,
         NEW title \in Seq(Ch)
  PROVE  Frame(x, y, w, h, title) \in Seq(PutsOf(Ch))
<1> DEFINE flat == [i \in 1 .. w |-> <<Put(x + i - 1, y, "-", "gray", FALSE),
                                      Put(x + i - 1, y + h - 1, "-", "gray", FALSE)>>]
           side == [i \in 1 .. h |-> <<Put(x, y + i - 1, "|", "gray", FALSE),
                                      Put(x + w - 1, y + i - 1, "|", "gray", FALSE)>>]
<1>1. "-" \in Ch /\ "|" \in Ch /\ "gray" \in Inks /\ "white" \in Inks
  BY DEF Marks, Inks
<1>2. ASSUME NEW i \in 1 .. w PROVE flat[i] \in Seq(PutsOf(Ch))
  <2>1. x + i - 1 \in Int /\ y + h - 1 \in Int /\ FALSE \in BOOLEAN
    OBVIOUS
  <2>2. /\ Put(x + i - 1, y, "-", "gray", FALSE) \in PutsOf(Ch)
        /\ Put(x + i - 1, y + h - 1, "-", "gray", FALSE) \in PutsOf(Ch)
    BY <1>1, <2>1, PutIs
  <2>3. <<Put(x + i - 1, y, "-", "gray", FALSE), Put(x + i - 1, y + h - 1, "-", "gray", FALSE)>>
          \in Seq(PutsOf(Ch))
    BY <2>2, TwoIs
  <2> QED BY <2>3
<1>3. ASSUME NEW i \in 1 .. h PROVE side[i] \in Seq(PutsOf(Ch))
  <2>1. x + w - 1 \in Int /\ y + i - 1 \in Int /\ FALSE \in BOOLEAN
    OBVIOUS
  <2>2. /\ Put(x, y + i - 1, "|", "gray", FALSE) \in PutsOf(Ch)
        /\ Put(x + w - 1, y + i - 1, "|", "gray", FALSE) \in PutsOf(Ch)
    BY <1>1, <2>1, PutIs
  <2>3. <<Put(x, y + i - 1, "|", "gray", FALSE), Put(x + w - 1, y + i - 1, "|", "gray", FALSE)>>
          \in Seq(PutsOf(Ch))
    BY <2>2, TwoIs
  <2> QED BY <2>3
<1>4. flat \in Seq(Seq(PutsOf(Ch))) /\ side \in Seq(Seq(PutsOf(Ch)))
  <2>1. flat \in [1 .. w -> Seq(PutsOf(Ch))]
    BY <1>2
  <2>2. side \in [1 .. h -> Seq(PutsOf(Ch))]
    BY <1>3
  <2> HIDE DEF flat, side
  <2> QED BY <2>1, <2>2, SeqFrom
<1>5. FlattenSeq(flat) \in Seq(PutsOf(Ch)) /\ FlattenSeq(side) \in Seq(PutsOf(Ch))
  BY <1>4, FlattenIs
<1>6. DrawText(x + 2, y, title, "white") \in Seq(PutsOf(Ch))
  BY <1>1, TextIs
<1>7. Frame(x, y, w, h, title) = FlattenSeq(flat) \o FlattenSeq(side) \o DrawText(x + 2, y, title, "white")
  BY DEF Frame
<1> HIDE DEF flat, side
<1> QED BY <1>5, <1>6, <1>7, ConcatProperties

LEMMA MostIs ==
  ASSUME NEW a \in Int PROVE Most(a, 0) \in Nat
BY DEF Most

LEMMA PageMapIs ==
  ASSUME NEW Ch, Marks \subseteq Ch, NEW x \in Int, NEW y \in Int, NEW w \in Nat, NEW h \in Nat
  PROVE  PageMap(x, y, w, h) \in Seq(PutsOf(Ch))
<1> DEFINE rows == [r \in 1 .. Most(h - 2, 0) |->
                      [c \in 1 .. Most(w - 2, 0) |->
                        LET s == Sample(((r - 1) * (c - 1)) % 15) IN Put(x + c, y + r, s[1], s[2], FALSE)]]
<1>1. \A n : Sample(n)[1] \in Ch /\ Sample(n)[2] \in Inks
  BY DEF Sample, Marks, Inks
<1> DEFINE m == Most(h - 2, 0) k == Most(w - 2, 0)
<1>2. m \in Nat /\ k \in Nat
  BY MostIs
<1> HIDE DEF m, k
<1>3. \A r \in 1 .. m, c \in 1 .. k :
        LET s == Sample(((r - 1) * (c - 1)) % 15)
        IN  Put(x + c, y + r, s[1], s[2], FALSE) \in PutsOf(Ch)
  <2> TAKE r \in 1 .. m, c \in 1 .. k
  <2> DEFINE s == Sample(((r - 1) * (c - 1)) % 15)
  <2>1. s[1] \in Ch /\ s[2] \in Inks
    BY <1>1
  <2> HIDE DEF s
  <2>2. x + c \in Int /\ y + r \in Int
    BY <1>2
  <2>3. Put(x + c, y + r, s[1], s[2], FALSE) \in PutsOf(Ch)
    BY <2>1, <2>2, PutIs
  <2> QED BY <2>3 DEF s
<1>4. rows \in Seq(Seq(PutsOf(Ch)))
  <2>1. ASSUME NEW r \in 1 .. m PROVE rows[r] \in Seq(PutsOf(Ch))
    <3>1. rows[r] \in [1 .. k -> PutsOf(Ch)]
      BY <1>3 DEF m, k
    <3> HIDE DEF rows
    <3> QED BY <1>2, <3>1, SeqFrom
  <2>2. rows \in [1 .. m -> Seq(PutsOf(Ch))]
    BY <2>1 DEF m
  <2> HIDE DEF rows
  <2> QED BY <1>2, <2>2, SeqFrom
<1>5. FlattenSeq(rows) \in Seq(PutsOf(Ch))
  BY <1>4, FlattenIs
<1>6. Frame(x, y, w, h, <<"P">>) \in Seq(PutsOf(Ch))
  <2>1. <<"P">> \in Seq(Ch)
    <3>1. "P" \in Ch
      BY DEF Marks
    <3> QED BY <3>1, OneIs
  <2> QED BY <2>1, FrameIs
<1>7. PageMap(x, y, w, h) = Frame(x, y, w, h, <<"P">>) \o FlattenSeq(rows)
  BY DEF PageMap
<1> HIDE DEF rows
<1> QED BY <1>5, <1>6, <1>7, ConcatProperties

LEMMA NeuralGaugeIs ==
  ASSUME NEW Ch, Marks \subseteq Ch, NEW x \in Int, NEW y \in Int, NEW h \in Nat, NEW lit,
         NEW score \in Seq(Ch)
  PROVE  NeuralGauge(x, y, h, lit, score) \in Seq(PutsOf(Ch))
<1> DEFINE bar == [i \in 1 .. Most(h - 4, 0) |->
                     Put(x + 1, y + 1 + i, ">", IF i - 1 >= h - 4 - lit THEN "cyan" ELSE "gray", TRUE)]
           m == Most(h - 4, 0)
<1>1. m \in Nat
  BY MostIs
<1>2. ">" \in Ch /\ "cyan" \in Inks /\ "gray" \in Inks /\ "yellow" \in Inks
  BY DEF Marks, Inks
<1>3. ASSUME NEW i \in 1 .. m PROVE bar[i] \in PutsOf(Ch)
  <2> DEFINE ink == IF i - 1 >= h - 4 - lit THEN "cyan" ELSE "gray"
  <2>1. x + 1 \in Int /\ y + 1 + i \in Int /\ TRUE \in BOOLEAN /\ ink \in Inks
    BY <1>1, <1>2
  <2>2. bar[i] = Put(x + 1, y + 1 + i, ">", ink, TRUE)
    OBVIOUS
  <2> HIDE DEF ink, bar
  <2>3. Put(x + 1, y + 1 + i, ">", ink, TRUE) \in PutsOf(Ch)
    BY <1>2, <2>1, PutIs
  <2> QED BY <2>2, <2>3
<1>4. bar \in Seq(PutsOf(Ch))
  <2>1. bar \in [1 .. m -> PutsOf(Ch)]
    BY <1>3
  <2> HIDE DEF bar, m
  <2> QED BY <1>1, <2>1, SeqFrom
<1>5. Frame(x, y, 4, h, <<"G">>) \in Seq(PutsOf(Ch))
  <2>1. <<"G">> \in Seq(Ch)
    <3>1. "G" \in Ch
      BY DEF Marks
    <3> QED BY <3>1, OneIs
  <2> QED BY <2>1, FrameIs
<1>6. DrawText(x + 2, y + h - 2, score, "yellow") \in Seq(PutsOf(Ch))
  BY <1>2, TextIs
<1>7. NeuralGauge(x, y, h, lit, score)
        = Frame(x, y, 4, h, <<"G">>) \o bar \o DrawText(x + 2, y + h - 2, score, "yellow")
  BY DEF NeuralGauge
<1> HIDE DEF bar
<1> QED BY <1>4, <1>5, <1>6, <1>7, ConcatProperties

LEMMA HeapTankIs ==
  ASSUME NEW Ch, Marks \subseteq Ch, NEW x \in Int, NEW y \in Int, NEW filled \in Int
  PROVE  HeapTank(x, y, filled) \in Seq(PutsOf(Ch))
<1> DEFINE bar == [i \in 1 .. Gauge |-> Put(x + i, y + 1, IF i <= filled THEN "=" ELSE " ", "green", TRUE)]
<1>1. Gauge \in Nat
  BY CanvasAssumption
<1>2. "=" \in Ch /\ " " \in Ch /\ "green" \in Inks
  BY DEF Marks, Inks
<1>3. ASSUME NEW i \in 1 .. Gauge PROVE bar[i] \in PutsOf(Ch)
  <2> DEFINE mark == IF i <= filled THEN "=" ELSE " "
  <2>0. mark \in Ch
    BY <1>2, Zenon
  <2>1. x + i \in Int /\ y + 1 \in Int /\ TRUE \in BOOLEAN
    BY <1>1
  <2>2. bar[i] = Put(x + i, y + 1, mark, "green", TRUE)
    OBVIOUS
  <2> HIDE DEF mark, bar
  <2>3. Put(x + i, y + 1, mark, "green", TRUE) \in PutsOf(Ch)
    BY <1>2, <2>0, <2>1, PutIs
  <2> QED BY <2>2, <2>3
<1>4. bar \in Seq(PutsOf(Ch))
  <2>1. bar \in [1 .. Gauge -> PutsOf(Ch)]
    BY <1>3
  <2> HIDE DEF bar
  <2> QED BY <1>1, <2>1, SeqFrom
<1>5. Frame(x, y, Gauge + 2, 3, <<"H">>) \in Seq(PutsOf(Ch))
  <2>1. <<"H">> \in Seq(Ch)
    <3>1. "H" \in Ch
      BY DEF Marks
    <3> QED BY <3>1, OneIs
  <2>2. Gauge + 2 \in Nat /\ 3 \in Nat
    BY <1>1
  <2> QED BY <2>1, <2>2, FrameIs
<1>6. HeapTank(x, y, filled) = Frame(x, y, Gauge + 2, 3, <<"H">>) \o bar
  BY DEF HeapTank
<1> HIDE DEF bar
<1> QED BY <1>4, <1>5, <1>6, ConcatProperties

CharsOf(s) == Marks \union {ToString(s.similarity), ToString(s.reads), ToString(s.writes)}

LEMMA DrawingIs ==
  ASSUME NEW c, c.height \in Int, NEW s
  PROVE  Drawing(c, s) \in Seq(PutsOf(CharsOf(s)))
<1> DEFINE p == Widgets.pages g == Widgets.gauge t == Widgets.tank
           score == <<ToString(s.similarity)>>
           status == <<"R", ToString(s.reads), "W", ToString(s.writes)>>
           Ch == CharsOf(s)
<1>1. /\ p[1] \in Nat /\ p[2] \in Nat /\ p[3] \in Nat /\ p[4] \in Nat
      /\ g[1] \in Nat /\ g[2] \in Nat /\ g[3] \in Nat /\ g[4] \in Nat
      /\ t[1] \in Nat /\ t[2] \in Nat
  BY CanvasAssumption
<1>2. Marks \subseteq Ch /\ ToString(s.similarity) \in Ch /\ ToString(s.reads) \in Ch
      /\ ToString(s.writes) \in Ch /\ "R" \in Ch /\ "W" \in Ch
  BY DEF CharsOf, Marks
<1>3. score \in Seq(Ch) /\ status \in Seq(Ch)
  <2> HIDE DEF Ch
  <2> QED BY <1>2
<1>4. Drawing(c, s) = PageMap(p[1], p[2], p[3], p[4]) \o NeuralGauge(g[1], g[2], g[4], s.level, score)
                        \o HeapTank(t[1], t[2], Gauge \div 2) \o DrawText(2, c.height - 2, status, "cyan")
  BY DEF Drawing
<1> DEFINE half == Gauge \div 2
<1>0. /\ p[1] \in Int /\ p[2] \in Int /\ g[1] \in Int /\ g[2] \in Int
      /\ t[1] \in Int /\ t[2] \in Int /\ half \in Int
  BY <1>1, CanvasAssumption
<1> HIDE DEF p, g, t, score, status, Ch, half
<1>5. PageMap(p[1], p[2], p[3], p[4]) \in Seq(PutsOf(Ch))
  BY <1>0, <1>1, <1>2, PageMapIs
<1>6. NeuralGauge(g[1], g[2], g[4], s.level, score) \in Seq(PutsOf(Ch))
  BY <1>0, <1>1, <1>2, <1>3, NeuralGaugeIs
<1>7. HeapTank(t[1], t[2], Gauge \div 2) \in Seq(PutsOf(Ch))
  <2>1. HeapTank(t[1], t[2], half) \in Seq(PutsOf(Ch))
    BY <1>0, <1>2, HeapTankIs
  <2> QED BY <2>1 DEF half
<1>8. DrawText(2, c.height - 2, status, "cyan") \in Seq(PutsOf(Ch))
  <2>1. "cyan" \in Inks /\ c.height - 2 \in Int /\ 2 \in Int
    BY DEF Inks
  <2> QED BY <2>1, <1>3, TextIs
<1>9. Drawing(c, s) \in Seq(PutsOf(Ch))
  BY <1>4, <1>5, <1>6, <1>7, <1>8, ConcatProperties
<1> QED BY <1>9 DEF Ch

\* After a round the canvas has its own cells and no others.
LEMMA DrawnWell ==
  ASSUME NEW size \in Nat \X Nat, NEW s
  PROVE  /\ CanvasWell(Drawn(Cleared(size), s))
         /\ Drawn(Cleared(size), s).width <= size[1]
         /\ Drawn(Cleared(size), s).height <= size[2]
<1> DEFINE c == Cleared(size) w == c.width h == c.height puts == Drawing(c, s) n == Len(puts)
           D == (0 .. w - 1) \X (0 .. h - 1)
           C == CellsOf(CharsOf(s))
<1>1. /\ w \in Nat /\ h \in Nat /\ w <= size[1] /\ h <= size[2]
      /\ c = [width |-> w, height |-> h, cell |-> [p \in D |-> EmptyCell]]
  <2>1. MaxColumns \in Nat /\ MaxRows \in Nat /\ size[1] \in Nat /\ size[2] \in Nat
    BY CanvasAssumption
  <2> QED BY <2>1 DEF Cleared, Least
<1>2. EmptyCell \in C
  BY DEF EmptyCell, CellsOf, CharsOf, Marks, Inks
<1> HIDE DEF c
<1> DEFINE K == Canvases(w, h, D, C)
<1>3. c \in Canvases(w, h, D, C)
  <2> HIDE DEF w, h, D, C
  <2> QED BY <1>1, <1>2 DEF Canvases
<1>4. puts \in Seq(PutsOf(CharsOf(s)))
  BY <1>1, DrawingIs
<1> HIDE DEF puts
<1>5. n \in Nat /\ DOMAIN puts = 1 .. n /\ \A i \in 1 .. n : puts[i] \in PutsOf(CharsOf(s))
  BY <1>4, LenProperties, ElementOfSeq
<1>6. \A i \in 1 .. n : puts[i].cell \in C
  BY <1>5 DEF PutsOf
<1> HIDE DEF n, C, D, w, h
<1>7. FoldLeft(db_canvas_put, c, puts) \in Canvases(w, h, D, C)
  BY <1>3, <1>5, <1>6, DrawnOn
<1>8. Drawn(c, s) \in Canvases(w, h, D, C)
  BY <1>7 DEF Drawn, puts
<1> DEFINE d == Drawn(c, s)
<1>9. d.width = w /\ d.height = h /\ DOMAIN d.cell = D /\ \A p \in D : d.cell[p] \in C
  BY <1>8 DEF Canvases
<1>10. \A p \in D : d.cell[p].bold \in BOOLEAN
  <2> HIDE DEF d
  <2> QED BY <1>9 DEF C, CellsOf
<1> HIDE DEF d
<1> QED BY <1>1, <1>9, <1>10 DEF CanvasWell, D, d, c

\* The thread and its starter take turns: there is a thread while the flag is up or the
\* starter waits for it, and before it starts and after it ends the terminal is restored.
Rest ==
  /\ caller = "joining" => ~nexusRunning /\ thread # "none"
  /\ caller = "free" /\ ~nexusRunning => thread = "none"
  /\ nexusRunning => caller = "free" /\ thread \notin {"none", "ended"}
  /\ thread \in {"none", "ended"} => terminal.cursor /\ terminal.pen = DefaultPen

\* What is on the terminal is the canvas of the last round, while none is being sent.
FramesSent ==
  /\ scenario = "dashboard" => TermWell(terminal)
  /\ thread = "render" => CanvasWell(canvas) /\ Fits(canvas, terminal)
  /\ terminal.showing /\ thread # "render" => FrameOn(terminal, canvas)

NInv == Rest /\ FramesSent

LEMMA NInvInit == Init => NInv
<1> SUFFICES ASSUME Init PROVE NInv
  OBVIOUS
<1>1. CASE scenario = "dashboard"
  <2>1. PICK size \in Terminals : terminal = [size |-> size, pen |-> DefaultPen, opened |-> DefaultPen,
                                   cursor |-> TRUE, showing |-> FALSE, screen |-> BlankScreen(size)]
    BY <1>1 DEF Init, NexusInit
  <2>2. size \in Nat \X Nat
    BY CanvasAssumption
  <2>3. TermWell(terminal)
    BY <2>1, <2>2 DEF TermWell, BlankScreen, DefaultPen
  <2>4. nexusRunning = FALSE /\ thread = "none" /\ caller = "free"
    BY <1>1 DEF Init, NexusInit
  <2> QED BY <2>1, <2>3, <2>4 DEF NInv, Rest, FramesSent
<1>2. CASE scenario # "dashboard"
  <2>1. nexusRunning = FALSE /\ thread = "none" /\ caller = "free"
        /\ terminal = [showing |-> FALSE, pen |-> DefaultPen, opened |-> DefaultPen,
                       cursor |-> TRUE]
    BY <1>2 DEF Init
  <2> QED BY <1>2, <2>1 DEF NInv, Rest, FramesSent
<1> QED BY <1>1, <1>2

LEMMA NInvRender ==
  ASSUME NInv, scenario = "dashboard", UNCHANGED scenario, Render
  PROVE  NInv'
<1>1. thread = "render" /\ thread' = "top" /\ terminal' = Rendered(terminal, canvas)
      /\ UNCHANGED <<nexusRunning, caller, canvas>>
  BY DEF Render
<1>2. TermWell(terminal) /\ CanvasWell(canvas) /\ Fits(canvas, terminal)
  BY <1>1 DEF NInv, FramesSent
<1>3. TermWell(Rendered(terminal, canvas)) /\ FrameOn(Rendered(terminal, canvas), canvas)
  BY <1>2, RenderedShows
<1>4. FramesSent'
  BY <1>1, <1>3 DEF FramesSent
<1>5. Rest'
  BY <1>1 DEF NInv, Rest
<1> QED BY <1>4, <1>5 DEF NInv

LEMMA NInvDraw ==
  ASSUME NInv, scenario = "dashboard", UNCHANGED scenario, Draw
  PROVE  NInv'
<1>1. thread = "draw" /\ thread' = "render" /\ canvas' = Drawn(Cleared(terminal.size), stats)
      /\ UNCHANGED <<nexusRunning, caller, terminal>>
  BY DEF Draw
<1>2. TermWell(terminal)
  BY DEF NInv, FramesSent
<1>3. CanvasWell(canvas') /\ Fits(canvas', terminal)
  BY <1>1, <1>2, DrawnWell DEF TermWell, Fits
<1>4. FramesSent'
  BY <1>1, <1>2, <1>3 DEF FramesSent
<1>5. Rest'
  BY <1>1 DEF NInv, Rest
<1> QED BY <1>4, <1>5 DEF NInv

\* A terminal that was blanked shows no frame; one whose pen and cursor were set shows what
\* it did.
LEMMA NInvBlank ==
  ASSUME NInv, scenario = "dashboard", UNCHANGED scenario, InitTerminal \/ Resize
  PROVE  NInv'
<1>1. TermWell(terminal)
  BY DEF NInv, FramesSent
<1>2. PICK size \in Nat \X Nat, on \in {terminal.cursor, FALSE} :
        terminal' = [terminal EXCEPT !.size = size, !.cursor = on, !.showing = FALSE,
                                     !.screen = BlankScreen(size)]
  <2>1. CASE InitTerminal
    <3>1. terminal.size \in Nat \X Nat
      BY <1>1 DEF TermWell
    <3>2. terminal' = [terminal EXCEPT !.size = terminal.size, !.cursor = FALSE, !.showing = FALSE,
                                       !.screen = BlankScreen(terminal.size)]
      BY <2>1, <1>1 DEF InitTerminal, TermWell
    <3> QED BY <3>1, <3>2
  <2>2. CASE Resize
    <3>1. PICK size \in Terminals :
            terminal' = [terminal EXCEPT !.size = size, !.screen = BlankScreen(size), !.showing = FALSE]
      BY <2>2 DEF Resize
    <3>2. size \in Nat \X Nat
      BY CanvasAssumption
    <3>3. terminal' = [terminal EXCEPT !.size = size, !.cursor = terminal.cursor, !.showing = FALSE,
                                       !.screen = BlankScreen(size)]
      BY <3>1, <1>1 DEF TermWell
    <3> QED BY <3>2, <3>3
  <2> QED BY <2>1, <2>2
<1>3. /\ DOMAIN terminal' = DOMAIN terminal /\ terminal'.showing = FALSE /\ terminal'.pen = terminal.pen
      /\ terminal'.size = size /\ terminal'.screen = BlankScreen(size)
  BY <1>1, <1>2 DEF TermWell
<1>4. TermWell(terminal')
  BY <1>1, <1>3 DEF TermWell, BlankScreen
<1>5. thread' = "top" /\ thread \in {"init", "top"} /\ UNCHANGED <<nexusRunning, caller>>
  BY DEF InitTerminal, Resize
<1>6. FramesSent'
  BY <1>3, <1>4, <1>5 DEF FramesSent
<1>7. Rest'
  BY <1>5 DEF NInv, Rest
<1> QED BY <1>6, <1>7 DEF NInv

LEMMA NInvShutdown ==
  ASSUME NInv, scenario = "dashboard", UNCHANGED scenario, Shutdown
  PROVE  NInv'
<1>1. TermWell(terminal) /\ thread = "top" /\ ~nexusRunning /\ thread' = "ended"
      /\ terminal' = [terminal EXCEPT !.pen = DefaultPen, !.cursor = TRUE]
      /\ UNCHANGED <<nexusRunning, caller, canvas>>
  BY DEF NInv, FramesSent, Shutdown
<1>2. /\ terminal'.size = terminal.size /\ terminal'.screen = terminal.screen
      /\ terminal'.showing = terminal.showing /\ terminal'.pen = DefaultPen
      /\ terminal'.cursor = TRUE /\ DOMAIN terminal' = DOMAIN terminal
      /\ terminal'.opened = terminal.opened
  BY <1>1 DEF TermWell
<1>3. TermWell(terminal')
  BY <1>1, <1>2 DEF TermWell, DefaultPen
<1>4. terminal.showing => FrameOn(terminal, canvas)
  BY <1>1 DEF NInv, FramesSent
<1>5. FrameOn(terminal, canvas) => FrameOn(terminal', canvas')
  BY <1>1, <1>2 DEF FrameOn
<1>6. FramesSent'
  BY <1>1, <1>2, <1>3, <1>4, <1>5 DEF FramesSent
<1>7. Rest'
  BY <1>1, <1>2 DEF NInv, Rest
<1> QED BY <1>6, <1>7 DEF NInv

LEMMA NInvNext ==
  ASSUME NInv, scenario = "dashboard", UNCHANGED scenario, NexusNext
  PROVE  NInv'
<1>1. CASE walia_nexus_start
  BY <1>1 DEF walia_nexus_start, NInv, Rest, FramesSent
<1>2. CASE StartFails
  BY <1>2 DEF StartFails, NInv, Rest, FramesSent
<1>3. CASE walia_nexus_stop
  BY <1>3 DEF walia_nexus_stop, NInv, Rest, FramesSent
<1>4. CASE Join
  BY <1>4 DEF Join, NInv, Rest, FramesSent
<1>5. CASE Pulse
  BY <1>5 DEF Pulse, NInv, Rest, FramesSent
<1>6. CASE ProcessPulses
  BY <1>6 DEF ProcessPulses, NInv, Rest, FramesSent
<1> QED BY <1>1, <1>2, <1>3, <1>4, <1>5, <1>6, NInvRender, NInvDraw, NInvBlank, NInvShutdown DEF NexusNext

LEMMA MetalDrawnStep ==
  ASSUME [Next]_metalVars
  PROVE  /\ UNCHANGED scenario
         /\ (scenario = "dashboard" /\ NexusNext) \/ UNCHANGED nexusVars
         /\ SurfaceNext \/ UNCHANGED surfaceVars
<1>1. CASE UNCHANGED metalVars
  BY <1>1 DEF metalVars, drawnVars
<1>2. CASE Drawings
  BY <1>2 DEF Drawings
<1>3. CASE Rings \/ Line \/ OnConsole(ConsoleNext) \/ Fold \/ Watch \/ Library
  BY <1>3 DEF Rings, Line, OnConsole, Fold, Watch, Library, drawnVars
<1> QED BY <1>1, <1>2, <1>3 DEF Next

DrawnInv == NInv /\ SInv

LEMMA DrawnInvNext ==
  ASSUME DrawnInv, [Next]_metalVars
  PROVE  DrawnInv'
<1>1. ASSUME UNCHANGED <<scenario, nexusVars>> PROVE NInv'
  BY <1>1 DEF nexusVars, DrawnInv, NInv, Rest, FramesSent
<1>2. ASSUME UNCHANGED surfaceVars PROVE SInv'
  BY <1>2 DEF surfaceVars, DrawnInv, SInv, SurfaceWell, PaintSound, PixelsSound, PixelNow, PixelSound
<1> QED BY <1>1, <1>2, MetalDrawnStep, NInvNext, SInvNext DEF DrawnInv

\* For any sizes of terminal and surface, widgets, elements and pulses: a frame shows the
\* canvas it was made from, a dashboard that was stopped leaves the terminal as it found
\* it, and tiles painted in any order write their own pixels, the last element on top.
THEOREM MetalDrawnAsSeen == Spec => []DrawnAsSeen
<1>1. Init => DrawnInv
  BY NInvInit, SInvInit DEF Init, DrawnInv
<1>2. DrawnInv /\ [Next]_metalVars => DrawnInv'
  BY DrawnInvNext
<1>3. DrawnInv => DrawnAsSeen
  <2> SUFFICES ASSUME DrawnInv PROVE DrawnAsSeen
    OBVIOUS
  <2>1. FrameShown
    BY DEF DrawnInv, NInv, FramesSent, FrameOn, FrameShown
  <2>2. TerminalRestored
    BY DEF DrawnInv, NInv, Rest, TerminalRestored
  <2>3. TilesApart
    BY PixelwiseApart DEF DrawnInv, SInv
  <2> QED BY <2>1, <2>2, <2>3 DEF DrawnAsSeen
<1> QED BY <1>1, <1>2, <1>3, PTL DEF Spec

-----------------------------------------------------------------------------
(* The console: what stands before the cursor stays there when a character is *)
(* printed, wherever the row ends, as long as it fits the screen but one row.  *)

Letters == {Lower[c] : c \in DOMAIN Lower} \union {Upper[c] : c \in DOMAIN Lower}
Glyphs == Letters \union {"> ", "?", " ", "newline"}
            \union UNION {{Reports[l][i] : i \in 1 .. Len(Reports[l])} : l \in DOMAIN Reports}
Screens == [cells : [Cells -> Glyphs], x : 0 .. Width - 1, y : 0 .. Height - 1]
CursorOf(s) == s.y * Width + s.x
BeforeCursor(s, w) ==
  /\ CursorOf(s) >= Len(w)
  /\ \A i \in 1 .. Len(w) : s.cells[CursorOf(s) - Len(w) + i - 1] = w[i]

LEMMA SeqWider ==
  ASSUME NEW E, NEW F, NEW q \in Seq(E), \A e \in E : e \in F
  PROVE  q \in Seq(F)
<1>1. \A i \in 1 .. Len(q) : q[i] \in F
  BY ElementOfSeq
<1>2. Len(q) \in Nat /\ q \in [1 .. Len(q) -> E]
  BY LenProperties
<1> QED BY <1>1, <1>2, SeqFrom

LEMMA ScreenFacts ==
  /\ Width \in Nat \ {0} /\ Height \in Nat \ {0} /\ Width * Height \in Nat
  /\ BufSize \in Nat \ {0} /\ BufSize <= Width * (Height - 1) /\ Width * (Height - 1) \in Nat
  /\ Width * (Height - 1) = (Height - 1) * Width /\ (Height - 1) * Width + Width = Width * Height
  /\ Height = 1 => Width * (Height - 1) = 0
BY ScreenAssumption

LEMMA CursorIn ==
  ASSUME NEW s \in Screens
  PROVE  CursorOf(s) \in Cells /\ s.x \in 0 .. Width - 1 /\ s.y \in 0 .. Height - 1
         /\ s.cells \in [Cells -> Glyphs]
<1>1. s.x \in 0 .. Width - 1 /\ s.y \in 0 .. Height - 1 /\ s.cells \in [Cells -> Glyphs]
  BY DEF Screens
<1>2. s.y * Width + s.x \in 0 .. Width * Height - 1
  BY <1>1, ScreenFacts, AddressIn
<1> QED BY <1>1, <1>2 DEF CursorOf, Cells

\* The end of k_vga_putc, from a cursor that has moved one on or to the next row.
LEMMA AdvancedIn ==
  ASSUME NEW cells \in [Cells -> Glyphs], NEW x \in 0 .. Width, NEW y \in 0 .. Height,
         y = Height => x < Width
  PROVE  Advanced([cells |-> cells, x |-> x, y |-> y]) \in Screens
<1> DEFINE s == [cells |-> cells, x |-> x, y |-> y]
           row == IF x >= Width THEN y + 1 ELSE y
<1>1. Advanced(s) = [cells |-> IF row >= Height THEN scroll(cells) ELSE cells,
                     x |-> IF x >= Width THEN 0 ELSE x,
                     y |-> IF row >= Height THEN Height - 1 ELSE row]
  BY DEF Advanced
<1>2. scroll(cells) \in [Cells -> Glyphs]
  BY DEF scroll, Glyphs, Space
<1>3. /\ (IF x >= Width THEN 0 ELSE x) \in 0 .. Width - 1
      /\ (IF row >= Height THEN Height - 1 ELSE row) \in 0 .. Height - 1
  BY ScreenFacts
<1> HIDE DEF row
<1> QED BY <1>1, <1>2, <1>3 DEF Screens

\* Where k_vga_putc leaves the screen, before the end of a row is looked at.
Printing(s, c) ==
  IF c = Newline THEN [cells |-> s.cells, x |-> 0, y |-> s.y + 1]
  ELSE [cells |-> [s.cells EXCEPT ![CursorOf(s)] = c], x |-> s.x + 1, y |-> s.y]

LEMMA PutcIs ==
  ASSUME NEW s \in Screens, NEW c
  PROVE  k_vga_putc(s, c) = Advanced(Printing(s, c))
<1>0. DOMAIN s = {"cells", "x", "y"}
  BY DEF Screens
<1>1. CASE c = Newline
  <2> DEFINE y == s.y + 1
  <2> HIDE DEF y
  <2>1. [s EXCEPT !.x = 0, !.y = y] = [cells |-> s.cells, x |-> 0, y |-> y]
    <3> DEFINE r == [s EXCEPT !.x = 0, !.y = y] q == [cells |-> s.cells, x |-> 0, y |-> y]
    <3>1. DOMAIN r = {"cells", "x", "y"} /\ r = [f \in DOMAIN r |-> r[f]]
      BY <1>0
    <3>2. DOMAIN q = {"cells", "x", "y"} /\ q = [f \in DOMAIN q |-> q[f]]
      OBVIOUS
    <3>3. r["cells"] = q["cells"] /\ r["x"] = q["x"] /\ r["y"] = q["y"]
      BY <1>0
    <3> HIDE DEF r, q
    <3>4. r = q
      BY <3>1, <3>2, <3>3
    <3> QED BY <3>4 DEF r, q
  <2> QED BY <1>1, <2>1 DEF k_vga_putc, Printing, y
<1>2. CASE c # Newline
  <2> DEFINE p == s.y * Width + s.x x == s.x + 1
  <2> HIDE DEF p, x
  <2>1. [s EXCEPT !.cells[p] = c, !.x = x]
          = [cells |-> [s.cells EXCEPT ![p] = c], x |-> x, y |-> s.y]
    <3> DEFINE r == [s EXCEPT !.cells[p] = c, !.x = x]
               q == [cells |-> [s.cells EXCEPT ![p] = c], x |-> x, y |-> s.y]
    <3>1. DOMAIN r = {"cells", "x", "y"} /\ r = [f \in DOMAIN r |-> r[f]]
      BY <1>0
    <3>2. DOMAIN q = {"cells", "x", "y"} /\ q = [f \in DOMAIN q |-> q[f]]
      OBVIOUS
    <3>3. r["cells"] = q["cells"] /\ r["x"] = q["x"] /\ r["y"] = q["y"]
      BY <1>0
    <3> HIDE DEF r, q
    <3>4. r = q
      BY <3>1, <3>2, <3>3
    <3> QED BY <3>4 DEF r, q
  <2>2. k_vga_putc(s, c) = Advanced([s EXCEPT !.cells[p] = c, !.x = x])
    BY <1>2 DEF k_vga_putc, p, x
  <2>3. Printing(s, c) = [cells |-> [s.cells EXCEPT ![p] = c], x |-> x, y |-> s.y]
    BY <1>2 DEF Printing, CursorOf, p, x
  <2> QED BY <2>1, <2>2, <2>3
<1> QED BY <1>1, <1>2

LEMMA PutcIn ==
  ASSUME NEW s \in Screens, NEW c \in Glyphs
  PROVE  k_vga_putc(s, c) \in Screens
<1>1. CASE c = Newline
  <2>1. k_vga_putc(s, c) = Advanced([cells |-> s.cells, x |-> 0, y |-> s.y + 1])
    BY <1>1, PutcIs DEF Printing
  <2>2. 0 \in 0 .. Width /\ s.y + 1 \in 0 .. Height /\ 0 < Width
    BY CursorIn, ScreenFacts
  <2> QED BY <2>1, <2>2, CursorIn, AdvancedIn
<1>2. CASE c # Newline
  <2> DEFINE cells == [s.cells EXCEPT ![CursorOf(s)] = c]
  <2>1. k_vga_putc(s, c) = Advanced([cells |-> cells, x |-> s.x + 1, y |-> s.y])
    BY <1>2, PutcIs DEF Printing
  <2>2. cells \in [Cells -> Glyphs]
    BY CursorIn
  <2>3. s.x + 1 \in 0 .. Width /\ s.y \in 0 .. Height /\ s.y # Height
    BY CursorIn, ScreenFacts
  <2> HIDE DEF cells
  <2> QED BY <2>1, <2>2, <2>3, AdvancedIn
<1> QED BY <1>1, <1>2

\* The cells at a place and before it.
Shown(cells, p, w, L) == \A i \in 1 .. L : p - L + i - 1 \in Cells /\ cells[p - L + i - 1] = w[i]

LEMMA PutcShows ==
  ASSUME NEW s \in Screens, NEW c \in Glyphs, c # Newline, NEW E, NEW w \in Seq(E), c \in E,
         BeforeCursor(s, w), Len(w) + 1 <= Width * (Height - 1)
  PROVE  BeforeCursor(k_vga_putc(s, c), Append(w, c))
<1>0. PICK W \in Nat, H \in Nat, area \in Nat, rest \in Nat :
        W = Width /\ H = Height /\ area = Width * Height /\ rest = (Height - 1) * Width
  BY ScreenFacts
<1>1. PICK x \in Nat, y \in Nat, m \in Nat, L \in Nat :
        x = s.x /\ y = s.y /\ m = y * W /\ L = Len(w)
  <2>1. s.x \in Nat /\ s.y \in Nat /\ Len(w) \in Nat
    BY CursorIn, LenProperties
  <2>2. s.y * W \in Nat
    BY <2>1, <1>0
  <2> QED BY <2>1, <2>2
<1>2. /\ W > 0 /\ H > 0 /\ rest + W = area /\ x < W /\ y < H /\ L + 1 <= rest
  BY <1>0, <1>1, CursorIn, ScreenFacts
<1>3. PICK p \in Nat : p = m + x /\ CursorOf(s) = p
  BY <1>0, <1>1 DEF CursorOf
<1>4. p < area /\ p >= L /\ Cells = 0 .. area - 1 /\ s.cells \in [Cells -> Glyphs] /\ p \in Cells
  <2>1. p \in Cells /\ s.cells \in [Cells -> Glyphs]
    BY <1>3, CursorIn
  <2>2. Cells = 0 .. area - 1
    BY <1>0 DEF Cells
  <2>3. p >= L
    BY <1>1, <1>3 DEF BeforeCursor
  <2> QED BY <2>1, <2>2, <2>3
<1> DEFINE cells == [s.cells EXCEPT ![p] = c]
           v == Append(w, c)
           t == k_vga_putc(s, c)
           row == IF x + 1 >= W THEN y + 1 ELSE y
<1>5. Len(v) = L + 1 /\ v[L + 1] = c /\ \A i \in 1 .. L : v[i] = w[i]
  BY <1>1, AppendProperties
<1>6. t = [cells |-> IF row >= H THEN scroll(cells) ELSE cells,
           x |-> IF x + 1 >= W THEN 0 ELSE x + 1,
           y |-> IF row >= H THEN H - 1 ELSE row]
  <2>1. Printing(s, c) = [cells |-> cells, x |-> x + 1, y |-> y]
    BY <1>1, <1>3 DEF Printing
  <2>2. t = Advanced([cells |-> cells, x |-> x + 1, y |-> y])
    BY <2>1, PutcIs
  <2> QED BY <2>2, <1>0 DEF Advanced
<1>7. cells[p] = c /\ \A a \in Cells : a # p => cells[a] = s.cells[a]
  BY <1>4
<1>8. \A i \in 1 .. L : s.cells[p - L + i - 1] = w[i]
  BY <1>1, <1>3 DEF BeforeCursor
<1> HIDE DEF cells, v, t
<1>9. ASSUME NEW i \in 1 .. L + 1
      PROVE  p - L + i - 1 \in Cells /\ cells[p - L + i - 1] = v[i]
  <2>1. PICK a \in Nat : a = p - L + i - 1
    BY <1>4
  <2>2. a \in Cells
    BY <2>1, <1>4
  <2>3. CASE i = L + 1
    BY <2>1, <2>2, <2>3, <1>5, <1>7
  <2>4. CASE i # L + 1
    <3>1. i \in 1 .. L /\ a # p
      BY <2>1, <2>4
    <3>2. s.cells[a] = w[i]
      BY <3>1, <2>1, <1>8
    <3> QED BY <2>1, <2>2, <3>1, <3>2, <1>5, <1>7
  <2> QED BY <2>3, <2>4
<1>10. CASE row < H
  <2>1. t.cells = cells
    BY <1>6, <1>10
  <2>2. CursorOf(t) = p + 1
    <3>1. CASE x + 1 >= W
      <4>1. t.x = 0 /\ t.y = y + 1 /\ x + 1 = W
        BY <1>2, <1>6, <1>10, <3>1
      <4>2. (y + 1) * W = m + W
        BY <1>1
      <4>3. t.y * Width = m + W
        BY <4>1, <4>2, <1>0
      <4> QED BY <4>1, <4>3, <1>3 DEF CursorOf
    <3>2. CASE ~(x + 1 >= W)
      <4>1. t.x = x + 1 /\ t.y = y
        BY <1>2, <1>6, <1>10, <3>2
      <4>2. t.y * Width = m
        BY <4>1, <1>0, <1>1
      <4> QED BY <4>1, <4>2, <1>3 DEF CursorOf
    <3> QED BY <3>1, <3>2
  <2>3. \A i \in 1 .. L + 1 : p + 1 - (L + 1) + i - 1 = p - L + i - 1
    OBVIOUS
  <2>4. \A i \in 1 .. L + 1 : t.cells[CursorOf(t) - (L + 1) + i - 1] = v[i]
    BY <2>1, <2>2, <2>3, <1>9
  <2>5. CursorOf(t) >= L + 1
    BY <2>2, <1>4
  <2>6. BeforeCursor(t, v)
    BY <2>4, <2>5, <1>5 DEF BeforeCursor
  <2> QED BY <2>6 DEF t, v
<1>11. CASE ~(row < H)
  <2>1. x + 1 = W /\ y + 1 = H /\ row >= H
    BY <1>2, <1>11
  <2>2. t.cells = scroll(cells) /\ t.x = 0 /\ t.y = H - 1
    BY <1>6, <2>1
  <2>3. m = rest
    <3>1. y = Height - 1 /\ m = y * Width
      BY <2>1, <1>0, <1>1
    <3> QED BY <3>1, <1>0
  <2>4. CursorOf(t) = rest
    BY <2>2, <1>0 DEF CursorOf
  <2>5. ASSUME NEW i \in 1 .. L + 1
        PROVE  t.cells[rest - (L + 1) + i - 1] = v[i]
    <3>1. PICK a \in Nat : a = rest - (L + 1) + i - 1
      BY <1>2
    <3>2. a \in Cells /\ a + W = p - L + i - 1
      BY <3>1, <2>1, <2>3, <1>2, <1>3, <1>4
    <3>3. scroll(cells)[a] = cells[a + W]
      BY <3>2, <1>0, <1>9 DEF scroll
    <3> QED BY <3>1, <3>2, <3>3, <2>2, <1>9
  <2>6. BeforeCursor(t, v)
    BY <2>4, <2>5, <1>2, <1>5 DEF BeforeCursor
  <2> QED BY <2>6 DEF t, v
<1> QED BY <1>10, <1>11

\* Backspace takes the last character off the screen, across the end of a row too.
LEMMA ErasureShows ==
  ASSUME NEW s \in Screens, NEW E, NEW w \in Seq(E), w # <<>>, BeforeCursor(s, w)
  PROVE  k_vga_backspace(s) \in Screens /\ BeforeCursor(k_vga_backspace(s), Front(w))
<1>0. PICK W \in Nat, H \in Nat, area \in Nat : W = Width /\ H = Height /\ area = Width * Height
  BY ScreenFacts
<1>1. PICK x \in Nat, y \in Nat, m \in Nat, L \in Nat :
        x = s.x /\ y = s.y /\ m = y * W /\ L = Len(w)
  <2>1. s.x \in Nat /\ s.y \in Nat /\ Len(w) \in Nat
    BY CursorIn, LenProperties
  <2>2. s.y * W \in Nat
    BY <2>1, <1>0
  <2> QED BY <2>1, <2>2
<1>2. PICK p \in Nat : p = m + x /\ CursorOf(s) = p
  BY <1>0, <1>1 DEF CursorOf
<1>3. /\ W > 0 /\ H > 0 /\ x < W /\ y < H /\ L > 0 /\ p >= L
      /\ Cells = 0 .. area - 1 /\ s.cells \in [Cells -> Glyphs] /\ p \in Cells
  <2>1. L # 0
    BY <1>1, EmptySeq
  <2>2. p >= L
    BY <1>1, <1>2 DEF BeforeCursor
  <2>3. Cells = 0 .. area - 1
    BY <1>0 DEF Cells
  <2>4. s.cells \in [Cells -> Glyphs] /\ p \in Cells
    BY <1>2, CursorIn
  <2>5. W > 0 /\ H > 0 /\ x < W /\ y < H
    BY <1>0, <1>1, CursorIn, ScreenFacts
  <2> QED BY <2>1, <2>2, <2>3, <2>4, <2>5
<1>4. y = 0 => m = 0
  BY <1>0, <1>1
<1> DEFINE t == k_vga_backspace(s)
           up == x = 0 /\ y > 0
           u == IF x > 0 THEN x - 1 ELSE IF up THEN W - 1 ELSE 0
           v == IF up THEN y - 1 ELSE y
<1>5. u \in 0 .. W - 1 /\ v \in 0 .. H - 1 /\ v * W + u = p - 1
  <2>1. CASE x > 0
    <3>1. u = x - 1 /\ v = y
      BY <2>1
    <3> HIDE DEF u, v
    <3>2. v * W = m
      BY <3>1, <1>1
    <3> QED BY <3>1, <3>2, <2>1, <1>2, <1>3
  <2>2. CASE x = 0
    <3>1. y > 0
      BY <2>2, <1>2, <1>3, <1>4
    <3>2. u = W - 1 /\ v = y - 1
      BY <2>2, <3>1
    <3>3. (y - 1) * W = m - W
      BY <1>1
    <3> HIDE DEF u, v
    <3> QED BY <2>2, <3>1, <3>2, <3>3, <1>2, <1>3
  <2> QED BY <2>1, <2>2
<1>6. t = [cells |-> [s.cells EXCEPT ![v * W + u] = Space], x |-> u, y |-> v]
  BY <1>0, <1>1 DEF k_vga_backspace
<1> HIDE DEF t, u, v
<1> DEFINE cells == [s.cells EXCEPT ![p - 1] = Space]
<1>7. t = [cells |-> cells, x |-> u, y |-> v]
  BY <1>5, <1>6
<1>8. cells \in [Cells -> Glyphs] /\ \A a \in Cells : a # p - 1 => cells[a] = s.cells[a]
  BY <1>3 DEF Glyphs, Space
<1> HIDE DEF cells
<1>9. t \in Screens
  BY <1>0, <1>5, <1>7, <1>8 DEF Screens
<1>10. CursorOf(t) = p - 1
  BY <1>0, <1>5, <1>7 DEF CursorOf
<1>14. \A i \in 1 .. L : s.cells[p - L + i - 1] = w[i]
  BY <1>1, <1>2 DEF BeforeCursor
<1>11. Len(Front(w)) = L - 1 /\ \A i \in 1 .. L - 1 : Front(w)[i] = w[i]
  BY <1>1, <1>3 DEF Front
<1>12. ASSUME NEW i \in 1 .. L - 1
       PROVE  t.cells[p - 1 - (L - 1) + i - 1] = Front(w)[i]
  <2>1. PICK a \in Nat : a = p - L + i - 1
    BY <1>3
  <2>2. a \in Cells /\ a # p - 1 /\ a = p - 1 - (L - 1) + i - 1
    BY <2>1, <1>3
  <2>3. s.cells[a] = w[i]
    BY <2>1, <1>3, <1>14
  <2> QED BY <2>2, <2>3, <1>7, <1>8, <1>11
<1>13. BeforeCursor(t, Front(w))
  <2>1. CursorOf(t) >= L - 1 /\ \A i \in 1 .. L - 1 : t.cells[CursorOf(t) - (L - 1) + i - 1] = Front(w)[i]
    BY <1>3, <1>10, <1>12
  <2> QED BY <2>1, <1>11 DEF BeforeCursor
<1> QED BY <1>9, <1>13 DEF t

\* The screens that a words leaves behind, character by character.
Prints(shots, s, words) ==
  /\ shots[0] = s /\ shots[Len(words)] = k_vga_print(s, words)
  /\ \A i \in 1 .. Len(words) : shots[i] = k_vga_putc(shots[i - 1], words[i])

LEMMA PrintIs ==
  ASSUME NEW s \in Screens, NEW words \in Seq(Glyphs)
  PROVE  \E shots \in [0 .. Len(words) -> Screens] : Prints(shots, s, words)
<1> DEFINE n == Len(words)
           A == Screens
           putc(t, c) == CHOOSE next \in {k_vga_putc(now, c) : now \in {t}} : TRUE
           F == [p \in A \X (1 .. n) |-> putc(p[1], words[p[2]])]
           Right(f) == f = [S \in SUBSET DOMAIN words |->
                              IF S = {} THEN s ELSE putc(f[S \ {Max(S)}], words[Max(S)])]
           fold == CHOOSE f : Right(f)
<1>0. n \in Nat /\ DOMAIN words = 1 .. n /\ \A i \in 1 .. n : words[i] \in Glyphs
  BY LenProperties
<1>1. ASSUME NEW t, NEW c PROVE putc(t, c) = k_vga_putc(t, c)
  OBVIOUS
<1> HIDE DEF putc
<1>2. \A a \in A, i \in 1 .. n : putc(a, words[i]) \in A
  BY <1>0, <1>1, PutcIn
<1>3. F \in [A \X (1 .. n) -> A]
  <2> HIDE DEF A, n
  <2> QED BY <1>2
<1> HIDE DEF A, n
<1>4. PICK g \in [SUBSET (1 .. n) -> A] : Folds(g, n, s, F)
  <2> HIDE DEF F
  <2>1. s \in A
    BY DEF A
  <2> QED BY <1>0, <1>3, <2>1, FoldExists
<1>5. ASSUME NEW S \in SUBSET (1 .. n)
      PROVE  g[S] = IF S = {} THEN s ELSE putc(g[S \ {Max(S)}], words[Max(S)])
  <2>1. CASE S = {}
    BY <1>4, <2>1 DEF Folds
  <2>2. CASE S # {}
    <3>1. LastOf(S) \in 1 .. n /\ Max(S) = LastOf(S)
      BY <1>0, <2>2, LastIs DEF Max, LastOf
    <3>2. S \ {LastOf(S)} \in SUBSET (1 .. n)
      OBVIOUS
    <3>3. g[S \ {LastOf(S)}] \in A
      BY <3>2
    <3>4. g[S] = F[<<g[S \ {LastOf(S)}], LastOf(S)>>]
      BY <1>4, <2>2 DEF Folds
    <3> QED BY <2>2, <3>1, <3>3, <3>4
  <2> QED BY <2>1, <2>2
<1>6. Right(g)
  BY <1>0, <1>5
<1>7. Right(fold)
  BY <1>6
<1> HIDE DEF fold, F
<1>8. fold[1 .. 0] = s /\ \A i \in 1 .. n : fold[1 .. i] = putc(fold[1 .. i - 1], words[i])
  <2>1. 1 .. 0 = {} /\ {} \in SUBSET (1 .. n)
    OBVIOUS
  <2>2. ASSUME NEW i \in 1 .. n PROVE fold[1 .. i] = putc(fold[1 .. i - 1], words[i])
    <3>1. 1 .. i \in SUBSET (1 .. n) /\ 1 .. i # {} /\ i \in Nat \ {0}
      BY <1>0, UpTo
    <3>2. Max(1 .. i) = i /\ (1 .. i) \ {i} = 1 .. i - 1
      BY <3>1, LastUpTo DEF Max, LastOf
    <3> QED BY <3>1, <3>2, <1>0, <1>7
  <2> QED BY <2>1, <2>2, <1>0, <1>7
<1> DEFINE Good == {i \in 0 .. n : fold[1 .. i] \in A}
<1>9. 0 \in Good
  BY <1>0, <1>8 DEF A
<1>10. ASSUME NEW i \in 0 .. n - 1, i \in Good PROVE i + 1 \in Good
  <2>1. PICK j \in 1 .. n : j = i + 1 /\ i = j - 1
    BY <1>0
  <2>2. fold[1 .. j] \in A
    BY <2>1, <1>2, <1>8, <1>10
  <2> QED BY <2>1, <2>2
<1>11. \A i \in 0 .. n : fold[1 .. i] \in A
  <2> HIDE DEF Good
  <2>1. \A i \in 0 .. n : i \in Good
    BY ONLY <1>0, <1>9, <1>10, CountUp
  <2> QED BY <2>1 DEF Good
<1>12. k_vga_print(s, words) = fold[DOMAIN words]
  BY DEF k_vga_print, FoldLeft, MapThenFoldSet, fold, putc
<1> DEFINE shots == [i \in 0 .. n |-> fold[1 .. i]]
<1>13. shots \in [0 .. n -> A] /\ shots[0] = s /\ shots[n] = k_vga_print(s, words)
  BY <1>0, <1>8, <1>11, <1>12
<1>14. ASSUME NEW i \in 1 .. n PROVE shots[i] = k_vga_putc(shots[i - 1], words[i])
  <2>1. i \in 0 .. n /\ i - 1 \in 0 .. n
    BY <1>0
  <2>2. shots[i] = putc(shots[i - 1], words[i])
    BY <2>1, <1>8
  <2> QED BY <2>2, <1>1
<1> HIDE DEF shots
<1> QED BY <1>13, <1>14 DEF Prints, A, n

LEMMA PrintIn ==
  ASSUME NEW s \in Screens, NEW words \in Seq(Glyphs)
  PROVE  k_vga_print(s, words) \in Screens
<1>1. PICK shots \in [0 .. Len(words) -> Screens] : Prints(shots, s, words)
  BY PrintIs
<1>2. Len(words) \in 0 .. Len(words)
  BY LenProperties
<1> QED BY <1>1, <1>2 DEF Prints

LEMMA PromptShows ==
  ASSUME NEW s \in Screens
  PROVE  k_vga_print(s, Prompt) \in Screens /\ BeforeCursor(k_vga_print(s, Prompt), Prompt \o <<>>)
<1> DEFINE c == "> "
<1>1. Prompt = <<c>> /\ c \in Glyphs /\ c # Newline /\ Len(Prompt) = 1 /\ Prompt[1] = c
      /\ Prompt \in Seq(Glyphs)
  BY DEF Prompt, Glyphs, Newline
<1>2. PICK shots \in [0 .. 1 -> Screens] : Prints(shots, s, Prompt)
  BY <1>1, PrintIs
<1>3. k_vga_print(s, Prompt) = k_vga_putc(s, c)
  <2>1. 1 - 1 = 0 /\ 1 \in 1 .. 1
    OBVIOUS
  <2> QED BY <1>1, <1>2, <2>1 DEF Prints
<1>4. BeforeCursor(s, <<>>)
  <2>1. CursorOf(s) \in Nat
    BY CursorIn DEF Cells
  <2> QED BY <2>1 DEF BeforeCursor
<1>5. Len(<<>>) + 1 <= Width * (Height - 1) /\ <<>> \in Seq(Glyphs)
  BY ScreenFacts
<1>6. BeforeCursor(k_vga_putc(s, c), Append(<<>>, c))
  <2> HIDE DEF c
  <2> QED BY <1>1, <1>4, <1>5, PutcShows
<1>7. Append(<<>>, c) = Prompt \o <<>>
  <2>1. Append(<<>>, c) = <<>> \o <<c>> /\ <<>> \o <<c>> = <<c>>
    <3>1. c \in Glyphs
      BY <1>1
    <3> HIDE DEF c
    <3>2. <<>> \in Seq(Glyphs) /\ <<c>> \in Seq(Glyphs)
      BY <3>1, OneIs
    <3> QED BY <3>1, <3>2, AppendIsConcat, ConcatEmptySeq, Zenon
  <2>2. Prompt \o <<>> = Prompt
    BY <1>1, ConcatEmptySeq
  <2> QED BY <1>1, <2>1, <2>2
<1>8. k_vga_putc(s, c) \in Screens
  BY <1>1, PutcIn
<1> QED BY <1>3, <1>6, <1>7, <1>8

LEMMA ClearIn == k_vga_clear \in Screens
<1>1. Space \in Glyphs
  BY DEF Space, Glyphs
<1> QED BY <1>1, ScreenFacts DEF k_vga_clear, Screens

LEMMA ExecuteIn ==
  ASSUME NEW s \in Screens, NEW line \in Seq(Letters)
  PROVE  shell_execute(s, line) \in Screens
<1>1. ASSUME line \in DOMAIN Reports PROVE k_vga_print(s, Reports[line]) \in Screens
  <2>1. PICK words : words = Reports[line]
    OBVIOUS
  <2>2. words \in Seq(STRING)
    BY <1>1, <2>1, ScreenAssumption
  <2>3. \A i \in 1 .. Len(words) : words[i] \in Glyphs
    <3>1. \A i \in 1 .. Len(words) :
             words[i] \in UNION {{Reports[l][k] : k \in 1 .. Len(Reports[l])} : l \in DOMAIN Reports}
      BY <1>1, <2>1
    <3> QED BY <3>1 DEF Glyphs
  <2>4. Len(words) \in Nat /\ words \in [1 .. Len(words) -> Glyphs]
    BY <2>2, <2>3, LenProperties
  <2>5. words \in Seq(Glyphs)
    BY <2>4, SeqFrom
  <2> QED BY <2>1, <2>5, PrintIn
<1>2. k_vga_print(s, <<"?">> \o line \o <<Newline>>) \in Screens
  <2>1. line \in Seq(Glyphs)
    BY SeqWider DEF Glyphs
  <2>2. "?" \in Glyphs /\ Newline \in Glyphs
    BY DEF Glyphs, Newline
  <2>3. <<"?">> \in Seq(Glyphs) /\ <<Newline>> \in Seq(Glyphs)
    BY <2>2, OneIs
  <2>4. <<"?">> \o line \in Seq(Glyphs)
    BY <2>1, <2>3, ConcatProperties
  <2>5. <<"?">> \o line \o <<Newline>> \in Seq(Glyphs)
    BY <2>3, <2>4, ConcatProperties
  <2> QED BY <2>5, PrintIn
<1>3. \/ shell_execute(s, line) \in {s, k_vga_clear}
      \/ shell_execute(s, line) = k_vga_print(s, <<"?">> \o line \o <<Newline>>)
      \/ line \in DOMAIN Reports /\ shell_execute(s, line) = k_vga_print(s, Reports[line])
  BY DEF shell_execute
<1> QED BY <1>1, <1>2, <1>3, ClearIn

ConsoleSound ==
  /\ screen \in Screens
  /\ buf \in Seq(Letters) /\ Len(buf) <= BufSize - 1
  /\ BeforeCursor(screen, Prompt \o buf)

LEMMA ConsoleSoundShows == ConsoleSound => ScreenShowsLine
BY DEF ConsoleSound, ScreenShowsLine, BeforeCursor, CursorOf

\* A fresh prompt.
LEMMA PromptSound ==
  ASSUME NEW s \in Screens, screen' = k_vga_print(s, Prompt), buf' = <<>>
  PROVE  ConsoleSound'
<1>1. screen' \in Screens /\ BeforeCursor(screen', Prompt \o <<>>)
  BY PromptShows
<1>2. buf' \in Seq(Letters) /\ Len(buf') = 0
  OBVIOUS
<1>3. 0 <= BufSize - 1
  BY ScreenFacts
<1> QED BY <1>1, <1>2, <1>3 DEF ConsoleSound, BeforeCursor, CursorOf

LEMMA ConsoleSoundInit == ConsoleInit => ConsoleSound
<1> SUFFICES ASSUME ConsoleInit PROVE ConsoleSound
  OBVIOUS
<1>1. screen = k_vga_print(k_vga_clear, Prompt) /\ buf = <<>>
  BY DEF ConsoleInit
<1>2. screen \in Screens /\ BeforeCursor(screen, Prompt \o <<>>)
  BY <1>1, ClearIn, PromptShows
<1>3. 0 <= BufSize - 1 /\ <<>> \in Seq(Letters) /\ Len(<<>>) = 0
  BY ScreenFacts
<1> QED BY <1>1, <1>2, <1>3 DEF ConsoleSound

LEMMA ConsoleSoundExecute ==
  ASSUME ConsoleSound, Execute
  PROVE  ConsoleSound'
<1>1. CASE buf = Reboot
  <2>1. screen' = k_vga_print(k_vga_clear, Prompt) /\ buf' = <<>>
    BY <1>1 DEF Execute, Booted
  <2> QED BY <2>1, ClearIn, PromptSound
<1>2. CASE buf # Reboot
  <2>1. PICK s, line : s = k_vga_putc(screen, Newline) /\ line = buf
    OBVIOUS
  <2>2. s \in Screens /\ line \in Seq(Letters)
    <3>1. Newline \in Glyphs
      BY DEF Glyphs, Newline
    <3> QED BY <2>1, <3>1, PutcIn DEF ConsoleSound
  <2>3. shell_execute(s, line) \in Screens
    BY <2>2, ExecuteIn
  <2>4. screen' = k_vga_print(shell_execute(s, line), Prompt) /\ buf' = <<>>
    BY <1>2, <2>1 DEF Execute
  <2> QED BY <2>3, <2>4, PromptSound
<1> QED BY <1>1, <1>2

LEMMA ConsoleSoundEdit ==
  ASSUME ConsoleSound, EditLine
  PROVE  ConsoleSound'
<1>1. PICK c, b, s : c = NextChar /\ b = buf /\ s = screen
  OBVIOUS
<1>2. c \in Letters /\ c # Newline
  <2>1. c \notin {NoChar, Newline}
    BY <1>1 DEF EditLine
  <2>2. \E code \in DOMAIN Lower : c = Lower[code] \/ c = Upper[code]
    BY <1>1, <2>1 DEF NextChar, CharOf
  <2> QED BY <2>1, <2>2 DEF Letters
<1>3. s \in Screens /\ b \in Seq(Letters) /\ Len(b) <= BufSize - 1 /\ BeforeCursor(s, Prompt \o b)
      /\ Prompt \in Seq(Glyphs) /\ b \in Seq(Glyphs) /\ Len(Prompt) = 1 /\ c \in Glyphs
  <2>1. s \in Screens /\ b \in Seq(Letters) /\ Len(b) <= BufSize - 1 /\ BeforeCursor(s, Prompt \o b)
    BY <1>1 DEF ConsoleSound
  <2>2. b \in Seq(Glyphs)
    BY <2>1, SeqWider DEF Glyphs
  <2>3. Prompt \in Seq(Glyphs) /\ Len(Prompt) = 1
    BY DEF Prompt, Glyphs
  <2> QED BY <1>2, <2>1, <2>2, <2>3 DEF Glyphs
<1>4. PICK w \in Seq(Glyphs) : w = Prompt \o b
  BY <1>3, ConcatProperties
<1>5. Len(w) = 1 + Len(b) /\ Len(b) \in Nat
  BY <1>3, <1>4, ConcatProperties, LenProperties
<1>6. CASE c = Erase /\ b # <<>>
  <2>1. buf' = Front(b) /\ screen' = k_vga_backspace(s)
    BY <1>1, <1>6 DEF EditLine
  <2>2. Len(b) > 0
    BY <1>3, <1>6, EmptySeq
  <2>3. Front(b) \in Seq(Letters) /\ Len(Front(b)) = Len(b) - 1
    BY <1>3, <2>2 DEF Front
  <2>4. Front(w) = Prompt \o Front(b)
    BY <1>3, <1>4, <1>5, <2>2 DEF Front
  <2>5. screen' \in Screens /\ BeforeCursor(screen', Front(w))
    <3>1. w # <<>>
      BY <1>5
    <3> QED BY <1>3, <1>4, <2>1, <3>1, ErasureShows
  <2> QED BY <1>3, <1>5, <2>1, <2>3, <2>4, <2>5, ScreenFacts DEF ConsoleSound, BeforeCursor, CursorOf
<1>7. CASE c # Erase /\ Len(b) < BufSize - 1
  <2>1. buf' = Append(b, c) /\ screen' = k_vga_putc(s, c)
    BY <1>1, <1>7 DEF EditLine
  <2>2. buf' \in Seq(Letters) /\ Len(buf') = Len(b) + 1
    BY <1>2, <1>3, <2>1, AppendProperties
  <2>3. Append(w, c) = Prompt \o Append(b, c)
    <3>1. Append(Prompt \o b, c) = Prompt \o Append(b, c)
      <4>1. PICK p \in Seq(Glyphs), q \in Seq(Glyphs), e \in Glyphs : p = Prompt /\ q = b /\ e = c
        BY <1>3
      <4>2. Append(p \o q, e) = p \o Append(q, e)
        OBVIOUS
      <4> QED BY <4>1, <4>2
    <3> QED BY <1>4, <3>1
  <2>4. Len(w) + 1 <= Width * (Height - 1)
    BY <1>5, <1>7, ScreenFacts
  <2>5. screen' \in Screens /\ BeforeCursor(screen', Append(w, c))
    BY <1>2, <1>3, <1>4, <2>1, <2>4, PutcIn, PutcShows
  <2>6. Len(buf') <= BufSize - 1
    BY <1>5, <1>7, <2>2, ScreenFacts
  <2> QED BY <2>1, <2>2, <2>3, <2>5, <2>6 DEF ConsoleSound, BeforeCursor, CursorOf
<1>8. CASE ~(c = Erase /\ b # <<>>) /\ ~(c # Erase /\ Len(b) < BufSize - 1)
  <2>1. UNCHANGED <<buf, screen>>
    BY <1>1, <1>8 DEF EditLine
  <2> QED BY <2>1 DEF ConsoleSound, BeforeCursor, CursorOf
<1> QED BY <1>6, <1>7, <1>8

LEMMA ConsoleSoundNext ==
  ASSUME ConsoleSound, [Next]_metalVars
  PROVE  ConsoleSound'
<1>1. CASE UNCHANGED <<buf, screen>>
  BY <1>1 DEF ConsoleSound, BeforeCursor, CursorOf
<1>2. ConsoleNext => Execute \/ EditLine \/ UNCHANGED <<buf, screen>>
  BY DEF ConsoleNext, ScancodeArrives, Timer, NoKey, Hlt
<1>3. Next => ConsoleNext \/ UNCHANGED consoleVars
  BY DEF Next, OnConsole, Rings, Line, Fold, Watch, Library, Drawings
<1>4. UNCHANGED metalVars => UNCHANGED consoleVars
  BY DEF metalVars
<1>5. UNCHANGED consoleVars => UNCHANGED <<buf, screen>>
  BY DEF consoleVars
<1> QED BY <1>1, <1>2, <1>3, <1>4, <1>5, ConsoleSoundExecute, ConsoleSoundEdit

LEMMA ConsoleSoundAlways == Spec => []ConsoleSound
<1>1. Init => ConsoleSound
  BY ConsoleSoundInit DEF Init
<1>2. ConsoleSound /\ [Next]_metalVars => ConsoleSound'
  BY ConsoleSoundNext
<1> QED BY <1>1, <1>2, PTL DEF Spec

-----------------------------------------------------------------------------
(* The line editor: the lines that a text means.                             *)

Typings == {"a", "A", "one", "newline", "erase"}
Lists == {l \in Seq(Seq(Typings)) : l # <<>>}

LEMMA KeyFacts ==
  /\ DOMAIN Shifted = {"a", "one", "newline", "erase"}
  /\ \A k \in DOMAIN Shifted :
        /\ k \in Typings /\ Shifted[k] \in Typings
        /\ (Shifted[k] = "newline" <=> k = "newline") /\ (Shifted[k] = "erase" <=> k = "erase")
  /\ NUL \notin Typings
  /\ \A k \in Keys : k \in DOMAIN Shifted \/ k \in {"down", "up"}
  /\ "down" \notin DOMAIN Shifted /\ "up" \notin DOMAIN Shifted
  /\ Beyond \notin Keys /\ Beyond \notin DOMAIN Shifted
BY KeysAssumption DEF Shifted, Typings, NUL, Beyond

LEMMA LineAfterIn ==
  ASSUME NEW line \in Seq(Typings), NEW c \in Typings
  PROVE  LineAfter(line, c) \in Seq(Typings)
<1>1. line # <<>> => Front(line) \in Seq(Typings)
  BY EmptySeq, LenProperties DEF Front
<1>2. Append(line, c) \in Seq(Typings)
  BY AppendProperties
<1> QED BY <1>1, <1>2 DEF LineAfter

\* A character extends or ends the last line and leaves those before it.
Extends(old, new, c) ==
  IF c = "newline" THEN /\ Len(new) = Len(old) + 1 /\ new[Len(old) + 1] = <<>>
                        /\ \A i \in 1 .. Len(old) : new[i] = old[i]
  ELSE /\ Len(new) = Len(old) /\ new[Len(old)] = LineAfter(old[Len(old)], c)
       /\ \A i \in 1 .. Len(old) - 1 : new[i] = old[i]

LEMMA LinesAfterIs ==
  ASSUME NEW old \in Lists, NEW c \in Typings
  PROVE  LinesAfter(old, c) \in Lists /\ Extends(old, LinesAfter(old, c), c)
<1>1. PICK n \in Nat \ {0} : n = Len(old)
  <2>1. Len(old) # 0
    BY EmptySeq DEF Lists
  <2> QED BY <2>1, LenProperties DEF Lists
<1>2. old \in Seq(Seq(Typings)) /\ old[n] \in Seq(Typings) /\ old \in [1 .. n -> Seq(Typings)]
  BY <1>1, LenProperties, ElementOfSeq DEF Lists
<1>3. CASE c = "newline"
  <2>1. <<>> \in Seq(Typings)
    OBVIOUS
  <2>2. LinesAfter(old, c) = Append(old, <<>>)
    BY <1>3 DEF LinesAfter
  <2>3. LinesAfter(old, c) \in Seq(Seq(Typings)) /\ LinesAfter(old, c) # <<>>
        /\ Len(LinesAfter(old, c)) = n + 1 /\ LinesAfter(old, c)[n + 1] = <<>>
        /\ \A i \in 1 .. n : LinesAfter(old, c)[i] = old[i]
    BY <1>1, <1>2, <2>1, <2>2, AppendProperties
  <2> QED BY <1>1, <1>3, <2>3 DEF Extends, Lists
<1>4. CASE c # "newline"
  <2> DEFINE new == [old EXCEPT ![n] = LineAfter(old[n], c)]
  <2>1. LinesAfter(old, c) = new
    BY <1>1, <1>4 DEF LinesAfter
  <2>2. LineAfter(old[n], c) \in Seq(Typings)
    BY <1>2, LineAfterIn
  <2>3. new \in [1 .. n -> Seq(Typings)]
    BY <1>2, <2>2
  <2>4. new \in Seq(Seq(Typings)) /\ Len(new) = n
    <3> HIDE DEF new
    <3>1. new \in Seq(Seq(Typings))
      BY <2>3, SeqFrom
    <3>2. DOMAIN new = 1 .. n /\ DOMAIN new = 1 .. Len(new) /\ Len(new) \in Nat
      BY <2>3, <3>1, LenProperties
    <3> QED BY <3>1, <3>2
  <2>5. new[n] = LineAfter(old[n], c) /\ \A i \in 1 .. n - 1 : new[i] = old[i]
    BY <1>2
  <2> HIDE DEF new
  <2>6. new # <<>>
    BY <2>4
  <2> QED BY <1>1, <1>4, <2>1, <2>4, <2>5, <2>6 DEF Extends, Lists
<1> QED BY <1>3, <1>4

Traces(trace, w) ==
  /\ trace[0] = << <<>> >> /\ trace[Len(w)] = LinesOf(w)
  /\ \A i \in 1 .. Len(w) : trace[i] = LinesAfter(trace[i - 1], w[i])

LEMMA LinesTrace ==
  ASSUME NEW w \in Seq(Typings)
  PROVE  \E trace \in [0 .. Len(w) -> Lists] : Traces(trace, w)
<1> DEFINE n == Len(w)
           A == Lists
           base == << <<>> >>
           F == [p \in A \X (1 .. n) |-> LinesAfter(p[1], w[p[2]])]
           Right(f) == f = [S \in SUBSET DOMAIN w |->
                              IF S = {} THEN base ELSE LinesAfter(f[S \ {Max(S)}], w[Max(S)])]
           fold == CHOOSE f : Right(f)
<1>0. n \in Nat /\ DOMAIN w = 1 .. n /\ \A i \in 1 .. n : w[i] \in Typings
  BY LenProperties
<1>1. base \in A
  BY DEF Lists
<1>2. \A a \in A, i \in 1 .. n : LinesAfter(a, w[i]) \in A
  BY <1>0, LinesAfterIs
<1>3. F \in [A \X (1 .. n) -> A]
  <2> HIDE DEF A, n
  <2> QED BY <1>2
<1> HIDE DEF A, n, base
<1>4. PICK g \in [SUBSET (1 .. n) -> A] : Folds(g, n, base, F)
  <2> HIDE DEF F
  <2> QED BY <1>0, <1>1, <1>3, FoldExists
<1>5. ASSUME NEW S \in SUBSET (1 .. n)
      PROVE  g[S] = IF S = {} THEN base ELSE LinesAfter(g[S \ {Max(S)}], w[Max(S)])
  <2>1. CASE S = {}
    BY <1>4, <2>1 DEF Folds
  <2>2. CASE S # {}
    <3>1. LastOf(S) \in 1 .. n /\ Max(S) = LastOf(S)
      BY <1>0, <2>2, LastIs DEF Max, LastOf
    <3>2. S \ {LastOf(S)} \in SUBSET (1 .. n)
      OBVIOUS
    <3>3. g[S \ {LastOf(S)}] \in A
      BY <3>2
    <3>4. g[S] = F[<<g[S \ {LastOf(S)}], LastOf(S)>>]
      BY <1>4, <2>2 DEF Folds
    <3> QED BY <2>2, <3>1, <3>3, <3>4
  <2> QED BY <2>1, <2>2
<1>6. Right(g)
  BY <1>0, <1>5
<1>7. Right(fold)
  BY <1>6
<1> HIDE DEF fold, F
<1>8. fold[1 .. 0] = base /\ \A i \in 1 .. n : fold[1 .. i] = LinesAfter(fold[1 .. i - 1], w[i])
  <2>1. 1 .. 0 = {} /\ {} \in SUBSET (1 .. n)
    OBVIOUS
  <2>2. ASSUME NEW i \in 1 .. n PROVE fold[1 .. i] = LinesAfter(fold[1 .. i - 1], w[i])
    <3>1. 1 .. i \in SUBSET (1 .. n) /\ 1 .. i # {} /\ i \in Nat \ {0}
      BY <1>0, UpTo
    <3>2. Max(1 .. i) = i /\ (1 .. i) \ {i} = 1 .. i - 1
      BY <3>1, LastUpTo DEF Max, LastOf
    <3> QED BY <3>1, <3>2, <1>0, <1>7
  <2> QED BY <2>1, <2>2, <1>0, <1>7
<1> DEFINE Good == {i \in 0 .. n : fold[1 .. i] \in A}
<1>9. 0 \in Good
  BY <1>0, <1>1, <1>8
<1>10. ASSUME NEW i \in 0 .. n - 1, i \in Good PROVE i + 1 \in Good
  <2>1. PICK j \in 1 .. n : j = i + 1 /\ i = j - 1
    BY <1>0
  <2>2. fold[1 .. j] \in A
    BY <2>1, <1>2, <1>8, <1>10
  <2> QED BY <2>1, <2>2
<1>11. \A i \in 0 .. n : fold[1 .. i] \in A
  <2> HIDE DEF Good
  <2>1. \A i \in 0 .. n : i \in Good
    BY ONLY <1>0, <1>9, <1>10, CountUp
  <2> QED BY <2>1 DEF Good
<1>12. LinesOf(w) = fold[DOMAIN w]
  BY DEF LinesOf, FoldLeft, MapThenFoldSet, fold, base
<1> DEFINE trace == [i \in 0 .. n |-> fold[1 .. i]]
<1>13. trace \in [0 .. n -> A] /\ trace[0] = base /\ trace[n] = LinesOf(w)
  BY <1>0, <1>8, <1>11, <1>12
<1>14. ASSUME NEW i \in 1 .. n PROVE trace[i] = LinesAfter(trace[i - 1], w[i])
  <2>1. i \in 0 .. n /\ i - 1 \in 0 .. n
    BY <1>0
  <2> QED BY <2>1, <1>8
<1> HIDE DEF trace
<1> QED BY <1>13, <1>14 DEF Traces, A, n, base

LEMMA LinesIn ==
  ASSUME NEW w \in Seq(Typings)
  PROVE  LinesOf(w) \in Lists
<1>1. PICK trace \in [0 .. Len(w) -> Lists] : Traces(trace, w)
  BY LinesTrace
<1>2. Len(w) \in 0 .. Len(w)
  BY LenProperties
<1> QED BY <1>1, <1>2 DEF Traces

LEMMA LinesOfNone == LinesOf(<<>>) = << <<>> >>
<1>1. <<>> \in Seq(Typings) /\ Len(<<>>) = 0
  OBVIOUS
<1>2. PICK trace \in [0 .. 0 -> Lists] : Traces(trace, <<>>)
  BY <1>1, LinesTrace
<1> QED BY <1>1, <1>2 DEF Traces

\* One character more.
LEMMA LinesOfMore ==
  ASSUME NEW w \in Seq(Typings), NEW c \in Typings
  PROVE  LinesOf(Append(w, c)) = LinesAfter(LinesOf(w), c)
<1>1. PICK n \in Nat, v \in Seq(Typings) : n = Len(w) /\ v = Append(w, c) /\ Len(v) = n + 1
        /\ v[n + 1] = c /\ \A i \in 1 .. n : v[i] = w[i]
  <2>1. Len(w) \in Nat /\ Append(w, c) \in Seq(Typings) /\ Len(Append(w, c)) = Len(w) + 1
        /\ Append(w, c)[Len(w) + 1] = c /\ \A i \in 1 .. Len(w) : Append(w, c)[i] = w[i]
    BY AppendProperties, LenProperties
  <2> QED BY <2>1
<1>2. PICK a \in [0 .. n -> Lists] : Traces(a, w)
  BY <1>1, LinesTrace
<1>3. PICK b \in [0 .. n + 1 -> Lists] : Traces(b, v)
  BY <1>1, LinesTrace
<1> DEFINE Good == {i \in 0 .. n : b[i] = a[i]}
<1>4. 0 \in Good
  BY <1>2, <1>3 DEF Traces
<1>5. ASSUME NEW i \in 0 .. n - 1, i \in Good PROVE i + 1 \in Good
  <2>1. PICK j \in 1 .. n : j = i + 1 /\ i = j - 1 /\ j \in 1 .. n + 1
    OBVIOUS
  <2>2. a[j] = LinesAfter(a[j - 1], w[j]) /\ b[j] = LinesAfter(b[j - 1], v[j])
    BY <1>1, <1>2, <1>3, <2>1 DEF Traces
  <2>3. b[j - 1] = a[j - 1]
    BY <1>5, <2>1
  <2> QED BY <1>1, <2>1, <2>2, <2>3
<1>6. b[n] = a[n]
  <2> HIDE DEF Good
  <2>1. n \in Nat
    OBVIOUS
  <2>2. \A i \in 0 .. n : i \in Good
    BY ONLY <2>1, <1>4, <1>5, CountUp
  <2> QED BY <2>2 DEF Good
<1>7. a[n] = LinesOf(w) /\ b[n + 1] = LinesOf(v)
  BY <1>1, <1>2, <1>3 DEF Traces
<1>8. b[n + 1] = LinesAfter(b[n], c)
  <2>1. n + 1 \in 1 .. n + 1 /\ n + 1 - 1 = n
    OBVIOUS
  <2> QED BY <1>1, <1>3, <2>1 DEF Traces
<1> QED BY <1>1, <1>6, <1>7, <1>8

\* What the first q characters mean.
LinesAt(w, q) == LinesOf(SubSeq(w, 1, q))

LEMMA FirstOnes ==
  ASSUME NEW E, NEW w \in Seq(E), NEW q \in 0 .. Len(w)
  PROVE  /\ SubSeq(w, 1, q) \in Seq(E) /\ Len(SubSeq(w, 1, q)) = q
         /\ \A i \in 1 .. q : SubSeq(w, 1, q)[i] = w[i]
BY LenProperties

LEMMA OneMore ==
  ASSUME NEW w \in Seq(Typings), NEW q \in 1 .. Len(w)
  PROVE  /\ w[q] \in Typings /\ LinesAt(w, q - 1) \in Lists
         /\ LinesAt(w, q) = LinesAfter(LinesAt(w, q - 1), w[q])
<1>1. q \in 0 .. Len(w) /\ q - 1 \in 0 .. Len(w) /\ w[q] \in Typings /\ q \in Nat
  BY LenProperties, ElementOfSeq
<1>2. PICK c \in Typings, a \in Seq(Typings), b \in Seq(Typings) :
        c = w[q] /\ a = SubSeq(w, 1, q - 1) /\ b = SubSeq(w, 1, q)
  BY <1>1, FirstOnes
<1>3. Len(a) = q - 1 /\ \A i \in 1 .. q - 1 : a[i] = w[i]
  BY <1>1, <1>2, FirstOnes
<1>4. Len(b) = q /\ \A i \in 1 .. q : b[i] = w[i]
  BY <1>1, <1>2, FirstOnes
<1>5. b = Append(a, c)
  <2>1. /\ Append(a, c) \in Seq(Typings) /\ Len(Append(a, c)) = Len(a) + 1
        /\ Append(a, c)[Len(a) + 1] = c /\ \A i \in 1 .. Len(a) : Append(a, c)[i] = a[i]
    BY AppendProperties
  <2>2. PICK d \in Seq(Typings) : d = Append(a, c)
    BY <2>1
  <2>3. Len(d) = q /\ d[q] = c /\ \A i \in 1 .. q - 1 : d[i] = w[i]
    BY <1>1, <1>3, <2>1, <2>2
  <2>4. \A i \in 1 .. q : i = q \/ i \in 1 .. q - 1
    BY <1>1
  <2>5. \A i \in 1 .. q : b[i] = d[i]
    BY <1>2, <1>4, <2>3, <2>4
  <2>6. b = d
    BY <1>4, <2>3, <2>5, SeqEqual
  <2> QED BY <2>2, <2>6
<1>6. LinesOf(b) = LinesAfter(LinesOf(a), c) /\ LinesOf(a) \in Lists
  BY <1>5, LinesOfMore, LinesIn
<1> QED BY <1>1, <1>2, <1>6 DEF LinesAt

\* What is ended stays as it is.
LEMMA EndedStay ==
  ASSUME NEW w \in Seq(Typings), NEW q \in 0 .. Len(w)
  PROVE  /\ Len(LinesAt(w, q)) <= Len(LinesOf(w))
         /\ \A i \in 1 .. Len(LinesAt(w, q)) - 1 : LinesOf(w)[i] = LinesAt(w, q)[i]
<1>1. PICK n \in Nat : n = Len(w)
  BY LenProperties
<1>2. PICK a \in Lists : a = LinesAt(w, q)
  BY FirstOnes, LinesIn DEF LinesAt
<1>3. PICK m \in Nat : m = Len(a)
  BY <1>2, LenProperties DEF Lists
<1> DEFINE Good == {k \in 0 .. n - q : /\ LinesAt(w, q + k) \in Lists /\ m <= Len(LinesAt(w, q + k))
                                      /\ \A i \in 1 .. m - 1 : LinesAt(w, q + k)[i] = a[i]}
<1>4. n - q \in Nat /\ q \in Nat /\ q + (n - q) = n /\ q + 0 = q
  BY <1>1
<1>5. 0 \in Good
  BY <1>2, <1>3, <1>4
<1>6. ASSUME NEW k \in 0 .. n - q - 1, k \in Good PROVE k + 1 \in Good
  <2>1. PICK p \in 1 .. Len(w) : p = q + k + 1 /\ p - 1 = q + k /\ p = q + (k + 1)
    BY <1>1, <1>4
  <2>2. PICK c \in Typings, b \in Lists, d \in Lists :
          c = w[p] /\ b = LinesAt(w, q + k) /\ d = LinesAt(w, p) /\ Extends(b, d, c)
    <3>1. w[p] \in Typings /\ LinesAt(w, p - 1) \in Lists
          /\ LinesAt(w, p) = LinesAfter(LinesAt(w, p - 1), w[p])
      BY OneMore
    <3> QED BY <2>1, <3>1, LinesAfterIs
  <2>3. m <= Len(b) /\ \A i \in 1 .. m - 1 : b[i] = a[i]
    BY <1>6, <2>2
  <2>4. Len(b) \in Nat /\ Len(d) \in Nat
    BY LenProperties DEF Lists
  <2>5. m <= Len(d) /\ \A i \in 1 .. m - 1 : d[i] = a[i]
    BY <2>2, <2>3, <2>4 DEF Extends
  <2> QED BY <1>4, <2>1, <2>2, <2>5
<1>7. n - q \in Good
  <2> HIDE DEF Good
  <2>1. \A k \in 0 .. n - q : k \in Good
    <3> DEFINE d == n - q
    <3>1. d \in Nat /\ 0 \in Good /\ \A k \in 0 .. d - 1 : k \in Good => k + 1 \in Good
      BY <1>4, <1>5, <1>6
    <3> HIDE DEF d
    <3>2. \A k \in 0 .. d : k \in Good
      BY ONLY <3>1, CountUp
    <3> QED BY <3>2 DEF d
  <2> QED BY <1>4, <2>1
<1>8. SubSeq(w, 1, n) = w
  BY <1>1, FirstOnes, SeqEqual
<1>9. LinesAt(w, n) = LinesOf(w)
  BY <1>8 DEF LinesAt
<1> QED BY <1>2, <1>3, <1>4, <1>7, <1>9

-----------------------------------------------------------------------------
(* A key in the editor.                                                      *)

Printings == Seq(Typings \union {" "})
EditorStates == [buffer : [0 .. LineSize - 1 -> Typings \union {NUL}],
                 idx : 0 .. LineSize - 1, complete : BOOLEAN, echo : Seq(Printings)]
KeyPulses == {p \in [key : BOOLEAN, char : Typings \union {NUL}, shifted : BOOLEAN] :
                p.key => p.char \in DOMAIN Shifted}

LEMMA LineSizeIs == LineSize \in Nat \ {0}
BY ShellAssumption

\* A text of three is a sequence of its characters.
LEMMA ThreeLong ==
  ASSUME NEW E, NEW a \in E, NEW b \in E
  PROVE  <<>> \in Seq(E) /\ <<a, b, a>> \in Seq(E)
<1>1. <<a, b, a>> \in [1 .. 3 -> E]
  OBVIOUS
<1>2. <<a, b, a>> \in Seq(E)
  BY <1>1, SeqDef
<1> QED BY <1>2

\* What a key does to the line, and what it prints.
LEMMA EditedIs ==
  ASSUME NEW e \in EditorStates, NEW p \in KeyPulses, p.key
  PROVE  Edited(e, p) \in EditorStates /\ Edited(e, p).echo = e.echo /\ Echoed(e, p) \in Printings
<1>1. /\ DOMAIN e = {"buffer", "idx", "complete", "echo"} /\ e.idx \in 0 .. LineSize - 1
      /\ e.buffer \in [0 .. LineSize - 1 -> Typings \union {NUL}] /\ e.complete \in BOOLEAN
      /\ e.echo \in Seq(Printings)
  BY DEF EditorStates
<1>2. p.char \in DOMAIN Shifted /\ Character(p) \in Typings
  BY KeyFacts DEF Character, KeyPulses
<1>3. CASE p.char = "newline"
  <2> DEFINE b == [e.buffer EXCEPT ![e.idx] = NUL]
  <2>1. Edited(e, p) = [e EXCEPT !.buffer[e.idx] = NUL, !.complete = TRUE]
    BY <1>3 DEF Edited
  <2>2. b \in [0 .. LineSize - 1 -> Typings \union {NUL}]
    BY <1>1
  <2>3. Edited(e, p) = [e EXCEPT !.buffer = b, !.complete = TRUE]
    BY <2>1
  <2>4. Echoed(e, p) = <<"newline">> /\ "newline" \in Typings
    BY <1>3 DEF Echoed, Typings
  <2>5. Echoed(e, p) \in Printings
    BY <2>4 DEF Printings
  <2> HIDE DEF b
  <2> QED BY <1>1, <2>2, <2>3, <2>5 DEF EditorStates
<1>4. CASE p.char = "erase"
  <2> DEFINE i == IF e.idx > 0 THEN e.idx - 1 ELSE e.idx
  <2>1. Edited(e, p) = [e EXCEPT !.idx = i]
    BY <1>4 DEF Edited
  <2>2. i \in 0 .. LineSize - 1
    BY <1>1, LineSizeIs
  <2>3. Echoed(e, p) \in {<<>>, <<"erase", " ", "erase">>} /\ "erase" \in Typings
    BY <1>4 DEF Echoed, Typings
  <2>4. Echoed(e, p) \in Printings
    <3> DEFINE E == Typings \union {" "}
    <3>1. "erase" \in E /\ " " \in E
      BY <2>3
    <3> HIDE DEF E
    <3>2. <<>> \in Seq(E) /\ <<"erase", " ", "erase">> \in Seq(E)
      BY ONLY <3>1, ThreeLong
    <3>3. Echoed(e, p) \in Seq(E)
      BY ONLY <2>3, <3>2
    <3> QED BY ONLY <3>3 DEF Printings, E
  <2> HIDE DEF i
  <2> QED BY <1>1, <2>1, <2>2, <2>4 DEF EditorStates
<1>5. CASE p.char \notin {"newline", "erase"}
  <2> DEFINE b == [e.buffer EXCEPT ![e.idx] = Character(p)]
             i == e.idx + 1
  <2>1. Edited(e, p) = e \/ (e.idx < LineSize - 1 /\ Edited(e, p) = [e EXCEPT !.buffer = b, !.idx = i])
    BY <1>5 DEF Edited
  <2>2. b \in [0 .. LineSize - 1 -> Typings \union {NUL}]
    BY <1>1, <1>2
  <2>3. e.idx < LineSize - 1 => i \in 0 .. LineSize - 1
    BY <1>1, LineSizeIs
  <2>4. Echoed(e, p) \in {<<>>, <<Character(p)>>}
    BY <1>5 DEF Echoed
  <2>5. Echoed(e, p) \in Printings
    <3> DEFINE E == Typings \union {" "}
    <3>1. PICK c \in E : c = Character(p)
      BY <1>2
    <3>2. <<>> \in Seq(E) /\ <<c>> \in Seq(E)
      <4> HIDE DEF E
      <4> QED OBVIOUS
    <3> QED BY <2>4, <3>1, <3>2 DEF Printings
  <2> HIDE DEF b, i
  <2> QED BY <1>1, <2>1, <2>2, <2>3, <2>5 DEF EditorStates
<1> QED BY <1>3, <1>4, <1>5

LEMMA ProcessIs ==
  ASSUME NEW e \in EditorStates, NEW p \in KeyPulses
  PROVE  /\ ProcessKey(e, p) \in EditorStates
         /\ ~p.key => ProcessKey(e, p) = e
         /\ p.key => LET r == ProcessKey(e, p) IN
                        /\ r.buffer = Edited(e, p).buffer /\ r.idx = Edited(e, p).idx
                        /\ r.complete = Edited(e, p).complete /\ r.echo = Append(e.echo, Echoed(e, p))
<1>1. CASE ~p.key
  BY <1>1 DEF ProcessKey
<1>2. CASE p.key
  <2>1. PICK d \in EditorStates, x \in Printings : d = Edited(e, p) /\ d.echo = e.echo /\ x = Echoed(e, p)
    BY <1>2, EditedIs
  <2>2. d.echo \in Seq(Printings)
    BY DEF EditorStates
  <2>3. PICK s \in Seq(Printings) : s = Append(d.echo, x)
    BY <2>2, AppendProperties
  <2>4. ProcessKey(e, p) = [d EXCEPT !.echo = s]
    BY <1>2, <2>1, <2>3 DEF ProcessKey
  <2>5. [d EXCEPT !.echo = s] \in EditorStates
    BY DEF EditorStates
  <2>6. DOMAIN d = {"buffer", "idx", "complete", "echo"}
    BY DEF EditorStates
  <2> QED BY <1>2, <2>1, <2>3, <2>4, <2>5, <2>6
<1> QED BY <1>1, <1>2

\* What stands in the buffer before an index.
Holds(b, k, line) == Len(line) = k /\ \A i \in 1 .. k : line[i] = b[i - 1]

LEMMA StringIs ==
  ASSUME NEW b, NEW k \in 0 .. LineSize - 1, NEW line \in Seq(Typings), b[k] = NUL, Holds(b, k, line)
  PROVE  StringIn(b) = line
<1>1. \A i \in 0 .. k - 1 : b[i] # NUL
  <2> TAKE i \in 0 .. k - 1
  <2>1. i + 1 \in 1 .. Len(line) /\ i + 1 - 1 = i /\ line[i + 1] = b[i + 1 - 1]
    BY LineSizeIs DEF Holds
  <2>2. line[i + 1] \in Typings
    BY <2>1, ElementOfSeq
  <2> QED BY <2>1, <2>2, KeyFacts
<1> DEFINE Right(n) == b[n] = NUL /\ \A i \in 0 .. n - 1 : b[i] # NUL
<1>2. Right(k)
  BY <1>1
<1>3. ASSUME NEW n \in 0 .. LineSize - 1, Right(n) PROVE n = k
  <2>1. ~ n < k
    BY <1>1, <1>3
  <2>2. ~ k < n
    BY <1>2, <1>3
  <2> QED BY <2>1, <2>2, LineSizeIs
<1>4. (CHOOSE n \in 0 .. LineSize - 1 : b[n] = NUL /\ \A i \in 0 .. n - 1 : b[i] # NUL) = k
  BY <1>2, <1>3
<1>5. StringIn(b) = [i \in 1 .. k |-> b[i - 1]]
  BY <1>4 DEF StringIn
<1>6. line = [i \in 1 .. k |-> line[i]]
  BY LenProperties DEF Holds
<1> QED BY <1>5, <1>6 DEF Holds

\* The editor e, in the last of the lines m.
InLast(e, m) == Holds(e.buffer, e.idx, m[Len(m)])

\* A key the editor has processed, r being what it became and after the lines
\* meant: a finished line is the one that was last, an open one is still last.
Finished(r, m, after) ==
  /\ r.complete => /\ Len(after) = Len(m) + 1 /\ after[Len(m) + 1] = <<>>
                   /\ \A i \in 1 .. Len(m) : after[i] = m[i]
                   /\ StringIn(r.buffer) = m[Len(m)]
  /\ ~r.complete => /\ Len(after) = Len(m) /\ \A i \in 1 .. Len(m) - 1 : after[i] = m[i]
                    /\ InLast(r, after)

LEMMA KeyEdits ==
  ASSUME NEW e \in EditorStates, e.complete = FALSE, NEW m \in Lists, InLast(e, m),
         NEW p \in KeyPulses, p.key
  PROVE  /\ Finished(ProcessKey(e, p), m, LinesAfter(m, Character(p)))
         /\ ProcessKey(e, p).echo = Append(e.echo, EchoOf(Last(m), Character(p)))
<1>1. PICK b \in [0 .. LineSize - 1 -> Typings \union {NUL}], k \in 0 .. LineSize - 1, n \in Nat \ {0}, line \in Seq(Typings), c \in Typings :
        b = e.buffer /\ k = e.idx /\ n = Len(m) /\ line = m[n] /\ c = Character(p)
  <2>1. Len(m) \in Nat \ {0}
    BY LenProperties, EmptySeq DEF Lists
  <2>2. m[Len(m)] \in Seq(Typings)
    BY <2>1, ElementOfSeq DEF Lists
  <2>3. Character(p) \in Typings
    BY KeyFacts DEF Character, KeyPulses
  <2>4. e.idx \in 0 .. LineSize - 1 /\ e.buffer \in [0 .. LineSize - 1 -> Typings \union {NUL}]
    BY DEF EditorStates
  <2> QED BY <2>1, <2>2, <2>3, <2>4
<1>2. Holds(b, k, line) /\ Len(line) = k /\ k \in Nat
  BY <1>1, LineSizeIs DEF InLast, Holds
<1>3. PICK r : r = Edited(e, p)
  OBVIOUS
<1>4. PICK after \in Lists : after = LinesAfter(m, c) /\ Extends(m, after, c)
  BY LinesAfterIs
<1>5. DOMAIN e = {"buffer", "idx", "complete", "echo"}
  BY DEF EditorStates
<1>6. p.char \in DOMAIN Shifted /\ (c = "newline" <=> p.char = "newline") /\ (c = "erase" <=> p.char = "erase")
  BY <1>1, KeyFacts DEF Character, KeyPulses
<1>7. ASSUME p.char = "newline" PROVE Finished(r, m, after)
  <2>1. r = [e EXCEPT !.buffer[e.idx] = NUL, !.complete = TRUE]
    BY <1>3, <1>7 DEF Edited
  <2>2. r.complete = TRUE /\ r.buffer = [b EXCEPT ![k] = NUL]
    BY <1>1, <1>5, <2>1
  <2> DEFINE d == [b EXCEPT ![k] = NUL]
  <2>3. d[k] = NUL /\ \A i \in 1 .. k : d[i - 1] = b[i - 1]
    <3>1. \A i \in 1 .. k : i - 1 \in 0 .. LineSize - 1 /\ i - 1 # k
      BY LineSizeIs
    <3> QED BY <3>1
  <2>4. Holds(d, k, line)
    BY <1>2, <2>3 DEF Holds
  <2>5. StringIn(r.buffer) = line
    <3> HIDE DEF d
    <3>1. StringIn(d) = line
      BY <2>3, <2>4, StringIs
    <3> QED BY <2>2, <3>1 DEF d
  <2>6. Len(after) = n + 1 /\ after[n + 1] = <<>> /\ \A i \in 1 .. n : after[i] = m[i]
    BY <1>1, <1>4, <1>6, <1>7 DEF Extends
  <2>7. Finished(r, m, after)
    BY <1>1, <2>2, <2>5, <2>6 DEF Finished
  <2> QED BY <2>7
<1>8. ASSUME p.char # "newline" PROVE Finished(r, m, after)
  <2>1. Len(after) = n /\ after[n] = LineAfter(line, c) /\ \A i \in 1 .. n - 1 : after[i] = m[i]
    BY <1>1, <1>4, <1>6, <1>8 DEF Extends
  <2>2. r.complete = FALSE /\ Holds(r.buffer, r.idx, LineAfter(line, c))
    <3>1. CASE p.char = "erase"
      <4>1. r = [e EXCEPT !.idx = IF e.idx > 0 THEN e.idx - 1 ELSE e.idx]
        BY <1>3, <1>8, <3>1 DEF Edited
      <4>2. r.complete = FALSE /\ r.buffer = b /\ r.idx = IF k > 0 THEN k - 1 ELSE k
        BY <1>1, <1>5, <4>1
      <4>3. LineAfter(line, c) = IF line = <<>> THEN <<>> ELSE Front(line)
        BY <1>6, <3>1 DEF LineAfter
      <4>4. CASE k > 0
        <5>1. line # <<>>
          BY <1>2, <4>4
        <5>2. Len(Front(line)) = k - 1 /\ \A i \in 1 .. k - 1 : Front(line)[i] = line[i]
          BY <1>2, <4>4 DEF Front
        <5>3. Holds(b, k - 1, Front(line))
          BY <1>2, <5>2 DEF Holds
        <5> QED BY <4>2, <4>3, <4>4, <5>1, <5>3
      <4>5. CASE ~ k > 0
        <5>1. k = 0 /\ line = <<>>
          BY <1>2, <4>5, EmptySeq
        <5> QED BY <1>2, <4>2, <4>3, <5>1
      <4> QED BY <4>4, <4>5
    <3>2. CASE p.char # "erase"
      <4>1. LineAfter(line, c) = IF k < LineSize - 1 THEN Append(line, c) ELSE line
        BY <1>2, <1>6, <3>2 DEF LineAfter
      <4>2. CASE k < LineSize - 1
        <5>1. r = [e EXCEPT !.buffer[e.idx] = c, !.idx = e.idx + 1]
          BY <1>1, <1>3, <1>8, <3>2, <4>2 DEF Edited
        <5>2. r.complete = FALSE /\ r.buffer = [b EXCEPT ![k] = c] /\ r.idx = k + 1
          BY <1>1, <1>5, <5>1
        <5> DEFINE d == [b EXCEPT ![k] = c]
        <5>3. d[k] = c /\ \A i \in 1 .. k : d[i - 1] = b[i - 1]
          <6>1. \A i \in 1 .. k : i - 1 \in 0 .. LineSize - 1 /\ i - 1 # k
            BY LineSizeIs
          <6> QED BY <6>1
        <5> HIDE DEF d
        <5>4. Len(Append(line, c)) = k + 1 /\ Append(line, c)[k + 1] = c
              /\ \A i \in 1 .. k : Append(line, c)[i] = line[i]
          BY <1>2, AppendProperties
        <5>5. \A i \in 1 .. k + 1 : i = k + 1 \/ i \in 1 .. k
          BY <1>2
        <5>6. Holds(d, k + 1, Append(line, c))
          BY <1>2, <5>3, <5>4, <5>5 DEF Holds
        <5> QED BY <4>1, <4>2, <5>2, <5>6 DEF d
      <4>3. CASE ~ k < LineSize - 1
        <5>1. r = e
          BY <1>1, <1>3, <1>8, <3>2, <4>3 DEF Edited
        <5> QED BY <1>1, <1>2, <4>1, <4>3, <5>1
      <4> QED BY <4>2, <4>3
    <3> QED BY <3>1, <3>2
  <2>3. InLast(r, after)
    BY <2>1, <2>2 DEF InLast
  <2>4. Finished(r, m, after)
    BY <1>1, <2>1, <2>2, <2>3 DEF Finished
  <2> QED BY <2>4
<1>9. PICK k2 : k2 = ProcessKey(e, p)
  OBVIOUS
<1>10. /\ k2.buffer = r.buffer /\ k2.idx = r.idx /\ k2.complete = r.complete
       /\ k2.echo = Append(e.echo, Echoed(e, p))
  BY <1>3, <1>9, ProcessIs
<1>11. Finished(k2, m, after)
  BY <1>7, <1>8, <1>10 DEF Finished, InLast
<1>12. Echoed(e, p) = EchoOf(line, c)
  <2>1. CASE p.char = "newline"
    BY <1>6, <2>1 DEF Echoed, EchoOf
  <2>2. CASE p.char = "erase"
    <3>1. e.idx > 0 <=> line # <<>>
      BY <1>1, <1>2, EmptySeq
    <3> QED BY <1>6, <2>2, <3>1 DEF Echoed, EchoOf
  <2>3. CASE p.char \notin {"newline", "erase"}
    BY <1>1, <1>2, <1>6, <2>3 DEF Echoed, EchoOf
  <2> QED BY <2>1, <2>2, <2>3
<1>13. Last(m) = line
  BY <1>1 DEF Last
<1> QED BY <1>1, <1>4, <1>9, <1>10, <1>11, <1>12, <1>13

\* The keys of a batch, one after the other.
EditTraces(trace, e, w) ==
  /\ trace[0] = e /\ trace[Len(w)] = FoldLeft(ProcessKey, e, w)
  /\ \A i \in 1 .. Len(w) : trace[i] = ProcessKey(trace[i - 1], w[i])

LEMMA EditTrace ==
  ASSUME NEW e \in EditorStates, NEW w \in Seq(KeyPulses)
  PROVE  \E trace \in [0 .. Len(w) -> EditorStates] : EditTraces(trace, e, w)
<1> DEFINE n == Len(w)
           A == EditorStates
           base == e
           F == [p \in A \X (1 .. n) |-> ProcessKey(p[1], w[p[2]])]
           Right(f) == f = [S \in SUBSET DOMAIN w |->
                              IF S = {} THEN base ELSE ProcessKey(f[S \ {Max(S)}], w[Max(S)])]
           fold == CHOOSE f : Right(f)
<1>0. n \in Nat /\ DOMAIN w = 1 .. n /\ \A i \in 1 .. n : w[i] \in KeyPulses
  BY LenProperties
<1>1. base \in A
  OBVIOUS
<1>2. \A a \in A, i \in 1 .. n : ProcessKey(a, w[i]) \in A
  BY <1>0, ProcessIs
<1>3. F \in [A \X (1 .. n) -> A]
  <2> HIDE DEF A, n
  <2> QED BY <1>2
<1> HIDE DEF A, n, base
<1>4. PICK g \in [SUBSET (1 .. n) -> A] : Folds(g, n, base, F)
  <2> HIDE DEF F
  <2> QED BY <1>0, <1>1, <1>3, FoldExists
<1>5. ASSUME NEW S \in SUBSET (1 .. n)
      PROVE  g[S] = IF S = {} THEN base ELSE ProcessKey(g[S \ {Max(S)}], w[Max(S)])
  <2>1. CASE S = {}
    BY <1>4, <2>1 DEF Folds
  <2>2. CASE S # {}
    <3>1. LastOf(S) \in 1 .. n /\ Max(S) = LastOf(S)
      BY <1>0, <2>2, LastIs DEF Max, LastOf
    <3>2. S \ {LastOf(S)} \in SUBSET (1 .. n)
      OBVIOUS
    <3>3. g[S \ {LastOf(S)}] \in A
      BY <3>2
    <3>4. g[S] = F[<<g[S \ {LastOf(S)}], LastOf(S)>>]
      BY <1>4, <2>2 DEF Folds
    <3> QED BY <2>2, <3>1, <3>3, <3>4
  <2> QED BY <2>1, <2>2
<1>6. Right(g)
  BY <1>0, <1>5
<1>7. Right(fold)
  BY <1>6
<1> HIDE DEF fold, F
<1>8. fold[1 .. 0] = base /\ \A i \in 1 .. n : fold[1 .. i] = ProcessKey(fold[1 .. i - 1], w[i])
  <2>1. 1 .. 0 = {} /\ {} \in SUBSET (1 .. n)
    OBVIOUS
  <2>2. ASSUME NEW i \in 1 .. n PROVE fold[1 .. i] = ProcessKey(fold[1 .. i - 1], w[i])
    <3>1. 1 .. i \in SUBSET (1 .. n) /\ 1 .. i # {} /\ i \in Nat \ {0}
      BY <1>0, UpTo
    <3>2. Max(1 .. i) = i /\ (1 .. i) \ {i} = 1 .. i - 1
      BY <3>1, LastUpTo DEF Max, LastOf
    <3> QED BY <3>1, <3>2, <1>0, <1>7
  <2> QED BY <2>1, <2>2, <1>0, <1>7
<1> DEFINE Good == {i \in 0 .. n : fold[1 .. i] \in A}
<1>9. 0 \in Good
  BY <1>0, <1>1, <1>8
<1>10. ASSUME NEW i \in 0 .. n - 1, i \in Good PROVE i + 1 \in Good
  <2>1. PICK j \in 1 .. n : j = i + 1 /\ i = j - 1
    BY <1>0
  <2>2. fold[1 .. j] \in A
    BY <2>1, <1>2, <1>8, <1>10
  <2> QED BY <2>1, <2>2
<1>11. \A i \in 0 .. n : fold[1 .. i] \in A
  <2> HIDE DEF Good
  <2>1. \A i \in 0 .. n : i \in Good
    BY ONLY <1>0, <1>9, <1>10, CountUp
  <2> QED BY <2>1 DEF Good
<1>12. FoldLeft(ProcessKey, e, w) = fold[DOMAIN w]
  BY DEF FoldLeft, MapThenFoldSet, fold, base
<1> DEFINE trace == [i \in 0 .. n |-> fold[1 .. i]]
<1>13. trace \in [0 .. n -> A] /\ trace[0] = base /\ trace[n] = FoldLeft(ProcessKey, e, w)
  BY <1>0, <1>8, <1>11, <1>12
<1>14. ASSUME NEW i \in 1 .. n PROVE trace[i] = ProcessKey(trace[i - 1], w[i])
  <2>1. i \in 0 .. n /\ i - 1 \in 0 .. n
    BY <1>0
  <2> QED BY <2>1, <1>8
<1> HIDE DEF trace
<1> QED BY <1>13, <1>14 DEF EditTraces, A, n, base

LEMMA EditedNone ==
  ASSUME NEW e \in EditorStates, NEW w \in Seq(KeyPulses), \A i \in 1 .. Len(w) : ~w[i].key
  PROVE  FoldLeft(ProcessKey, e, w) = e
<1>1. PICK n \in Nat : n = Len(w)
  BY LenProperties
<1>2. PICK a \in [0 .. n -> EditorStates] : EditTraces(a, e, w)
  BY <1>1, EditTrace
<1> DEFINE Good == {i \in 0 .. n : a[i] = e}
<1>3. 0 \in Good
  BY <1>2 DEF EditTraces
<1>4. ASSUME NEW i \in 0 .. n - 1, i \in Good PROVE i + 1 \in Good
  <2>1. PICK j \in 1 .. n : j = i + 1 /\ i = j - 1
    OBVIOUS
  <2>2. a[j] = ProcessKey(e, w[j])
    BY <1>1, <1>2, <1>4, <2>1 DEF EditTraces
  <2>3. w[j] \in KeyPulses /\ ~w[j].key
    BY <1>1, ElementOfSeq
  <2>4. ProcessKey(e, w[j]) = e
    BY <2>3, ProcessIs
  <2> QED BY <2>1, <2>2, <2>4
<1>5. a[n] = e
  <2> HIDE DEF Good
  <2>1. n \in Nat
    OBVIOUS
  <2>2. \A i \in 0 .. n : i \in Good
    BY ONLY <2>1, <1>3, <1>4, CountUp
  <2> QED BY <2>2 DEF Good
<1> QED BY <1>1, <1>2, <1>5 DEF EditTraces

LEMMA EditedOne ==
  ASSUME NEW e \in EditorStates, NEW w \in Seq(KeyPulses), NEW k \in 1 .. Len(w),
         \A i \in 1 .. Len(w) : w[i].key => i = k
  PROVE  FoldLeft(ProcessKey, e, w) = ProcessKey(e, w[k])
<1>1. PICK n \in Nat : n = Len(w)
  BY LenProperties
<1>2. PICK a \in [0 .. n -> EditorStates] : EditTraces(a, e, w)
  BY <1>1, EditTrace
<1>3. PICK r \in EditorStates : r = ProcessKey(e, w[k])
  BY ElementOfSeq, ProcessIs
<1> DEFINE Good == {i \in 0 .. n : a[i] = IF i < k THEN e ELSE r}
<1>4. 0 \in Good
  BY <1>1, <1>2 DEF EditTraces
<1>5. ASSUME NEW i \in 0 .. n - 1, i \in Good PROVE i + 1 \in Good
  <2>1. PICK j \in 1 .. n : j = i + 1 /\ i = j - 1
    OBVIOUS
  <2>2. a[j] = ProcessKey(a[i], w[j]) /\ a[i] = IF i < k THEN e ELSE r
    BY <1>1, <1>2, <1>5, <2>1 DEF EditTraces
  <2>3. w[j] \in KeyPulses /\ a[i] \in EditorStates
    BY <1>1, <1>3, <2>2, ElementOfSeq
  <2>4. CASE j = k
    BY <1>1, <1>3, <2>1, <2>2, <2>4
  <2>5. CASE j # k
    <3>1. ~w[j].key
      BY <1>1, <2>5
    <3>2. a[j] = a[i]
      BY <2>2, <2>3, <3>1, ProcessIs
    <3> QED BY <1>1, <2>1, <2>2, <2>5, <3>2
  <2> QED BY <2>4, <2>5
<1>6. a[n] = r
  <2> HIDE DEF Good
  <2>1. n \in Nat
    OBVIOUS
  <2>2. \A i \in 0 .. n : i \in Good
    BY ONLY <2>1, <1>4, <1>5, CountUp
  <2>3. a[n] = IF n < k THEN e ELSE r
    BY <2>1, <2>2 DEF Good
  <2> QED BY <1>1, <2>3
<1> QED BY <1>1, <1>2, <1>3, <1>6 DEF EditTraces

-----------------------------------------------------------------------------
(* The keyboard: q of the characters typed have left the port, and what waits  *)
(* there stands for the others, shift keys as they were when it was pressed.    *)

Shifts(s, code) == code = "down" \/ (s /\ code # "up")
CharFor(s, code) == IF s THEN Shifted[code] ELSE code
Waits(p, w, shifts, places, i) ==
  /\ p[i] \in Keys /\ shifts[i] = Shifts(shifts[i - 1], p[i])
  /\ places[i] = IF p[i] \in DOMAIN Shifted THEN places[i - 1] + 1 ELSE places[i - 1]
  /\ p[i] \in DOMAIN Shifted => w[places[i]] = CharFor(shifts[i - 1], p[i])
PortWith(p, s, h, w, q, shifts, places) ==
  /\ shifts \in [0 .. Len(p) -> BOOLEAN] /\ places \in [0 .. Len(p) -> 0 .. Len(w)]
  /\ shifts[0] = s /\ shifts[Len(p)] = h /\ places[0] = q /\ places[Len(p)] = Len(w)
  /\ \A i \in 1 .. Len(p) : Waits(p, w, shifts, places, i)
PortHolds(p, s, h, w, q) == \E shifts, places : PortWith(p, s, h, w, q, shifts, places)

LEMMA PortIn ==
  ASSUME NEW p \in Seq(Keys), NEW s, NEW h, NEW w \in Seq(Typings), NEW q, PortHolds(p, s, h, w, q)
  PROVE  q \in 0 .. Len(w) /\ s \in BOOLEAN /\ h \in BOOLEAN
<1>1. 0 \in 0 .. Len(p) /\ Len(p) \in 0 .. Len(p)
  BY LenProperties
<1> QED BY <1>1 DEF PortHolds, PortWith

LEMMA PortPress ==
  ASSUME NEW p \in Seq(Keys), NEW s, NEW h, NEW w \in Seq(Typings), NEW q, PortHolds(p, s, h, w, q),
         NEW code \in Keys
  PROVE  LET v == IF code \in DOMAIN Shifted THEN Append(w, CharFor(h, code)) ELSE w
         IN  v \in Seq(Typings) /\ PortHolds(Append(p, code), s, Shifts(h, code), v, q)
<1>1. PICK shifts, places : PortWith(p, s, h, w, q, shifts, places)
  BY DEF PortHolds
<1>2. PICK n \in Nat, m \in Nat, r \in Seq(Keys) :
        /\ n = Len(p) /\ m = Len(w) /\ r = Append(p, code) /\ Len(r) = n + 1
        /\ r[n + 1] = code /\ \A i \in 1 .. n : r[i] = p[i]
  <2>1. Len(p) \in Nat /\ Len(w) \in Nat
    BY LenProperties
  <2>2. Append(p, code) \in Seq(Keys) /\ Len(Append(p, code)) = Len(p) + 1
        /\ Append(p, code)[Len(p) + 1] = code /\ \A i \in 1 .. Len(p) : Append(p, code)[i] = p[i]
    BY AppendProperties
  <2> QED BY <2>1, <2>2
<1>3. h \in BOOLEAN
  BY PortIn
<1>4. PICK v \in Seq(Typings), k \in {m, m + 1} :
        /\ v = (IF code \in DOMAIN Shifted THEN Append(w, CharFor(h, code)) ELSE w)
        /\ Len(v) = k /\ k = (IF code \in DOMAIN Shifted THEN m + 1 ELSE m)
        /\ \A i \in 1 .. m : v[i] = w[i]
        /\ code \in DOMAIN Shifted => v[k] = CharFor(h, code)
  <2>1. CASE code \in DOMAIN Shifted
    <3>1. PICK c \in Typings : c = CharFor(h, code)
      BY <2>1, KeyFacts DEF CharFor
    <3>2. Append(w, c) \in Seq(Typings) /\ Len(Append(w, c)) = Len(w) + 1
          /\ Append(w, c)[Len(w) + 1] = c /\ \A i \in 1 .. Len(w) : Append(w, c)[i] = w[i]
      BY AppendProperties
    <3> QED BY <1>2, <2>1, <3>1, <3>2
  <2>2. CASE code \notin DOMAIN Shifted
    BY <1>2, <2>2
  <2> QED BY <2>1, <2>2
<1> DEFINE up == [i \in 0 .. n + 1 |-> IF i = n + 1 THEN Shifts(h, code) ELSE shifts[i]]
           at == [i \in 0 .. n + 1 |-> IF i = n + 1 THEN k ELSE places[i]]
<1>5. /\ shifts \in [0 .. n -> BOOLEAN] /\ places \in [0 .. n -> 0 .. m]
      /\ shifts[0] = s /\ shifts[n] = h /\ places[0] = q /\ places[n] = m
      /\ \A i \in 1 .. n : Waits(p, w, shifts, places, i)
  BY <1>1, <1>2 DEF PortWith
<1>6. /\ \A i \in 0 .. n : i \in 0 .. n + 1 /\ i # n + 1
      /\ 0 \in 0 .. n /\ n \in 0 .. n /\ n + 1 \in 0 .. n + 1
      /\ \A i \in 0 .. n + 1 : i = n + 1 \/ i \in 0 .. n
      /\ \A i \in 1 .. n : i \in 0 .. n /\ i - 1 \in 0 .. n
  OBVIOUS
<1>7. /\ \A i \in 0 .. n : up[i] = shifts[i] /\ at[i] = places[i]
      /\ up[n + 1] = Shifts(h, code) /\ at[n + 1] = k
  BY <1>6
<1>8. up \in [0 .. n + 1 -> BOOLEAN] /\ at \in [0 .. n + 1 -> 0 .. k]
  <2>1. Shifts(h, code) \in BOOLEAN
    BY <1>3 DEF Shifts
  <2>2. \A i \in 0 .. n : shifts[i] \in BOOLEAN /\ places[i] \in 0 .. m
    BY <1>5
  <2>3. k \in 0 .. k /\ \A i \in 0 .. m : i \in 0 .. k
    OBVIOUS
  <2> QED BY <1>6, <2>1, <2>2, <2>3
<1> HIDE DEF up, at
<1>9. ASSUME NEW i \in 1 .. n PROVE Waits(r, v, up, at, i)
  <2>1. i \in 0 .. n /\ i - 1 \in 0 .. n /\ r[i] = p[i]
    BY <1>2, <1>6
  <2>2. up[i] = shifts[i] /\ up[i - 1] = shifts[i - 1] /\ at[i] = places[i] /\ at[i - 1] = places[i - 1]
    BY <1>7, <2>1
  <2>3. Waits(p, w, shifts, places, i)
    BY <1>5
  <2>4. p[i] \in DOMAIN Shifted => v[places[i]] = w[places[i]]
    <3>1. places[i] \in 0 .. m /\ places[i - 1] \in 0 .. m
      BY <1>5, <2>1
    <3>2. p[i] \in DOMAIN Shifted => places[i] \in 1 .. m
      BY <2>3, <3>1 DEF Waits
    <3> QED BY <1>4, <3>2
  <2> QED BY <2>1, <2>2, <2>3, <2>4 DEF Waits
<1>10. Waits(r, v, up, at, n + 1)
  <2>1. n + 1 - 1 = n /\ up[n] = h /\ at[n] = m
    BY <1>5, <1>6, <1>7
  <2> QED BY <1>2, <1>4, <1>7, <2>1 DEF Waits
<1>11. PortWith(r, s, Shifts(h, code), v, q, up, at)
  <2>1. \A i \in 1 .. n + 1 : i = n + 1 \/ i \in 1 .. n
    OBVIOUS
  <2> QED BY <1>2, <1>4, <1>5, <1>6, <1>7, <1>8, <1>9, <1>10, <2>1 DEF PortWith
<1> QED BY <1>2, <1>4, <1>11 DEF PortHolds

LEMMA PortTakes ==
  ASSUME NEW p \in Seq(Keys), p # <<>>, NEW s, NEW h, NEW w \in Seq(Typings), NEW q,
         PortHolds(p, s, h, w, q)
  PROVE  LET code == Head(p)
         IN  /\ code \in Keys /\ Tail(p) \in Seq(Keys)
             /\ code \in DOMAIN Shifted =>
                   /\ q + 1 \in 1 .. Len(w) /\ w[q + 1] = CharFor(s, code)
                   /\ PortHolds(Tail(p), Shifts(s, code), h, w, q + 1)
             /\ code \notin DOMAIN Shifted => PortHolds(Tail(p), Shifts(s, code), h, w, q)
<1>1. PICK shifts, places : PortWith(p, s, h, w, q, shifts, places)
  BY DEF PortHolds
<1>2. PICK n \in Nat, m \in Nat, r \in Seq(Keys), code \in Keys :
        /\ n + 1 = Len(p) /\ m = Len(w) /\ r = Tail(p) /\ Len(r) = n /\ code = Head(p) /\ p[1] = code
        /\ \A i \in 1 .. n : r[i] = p[i + 1]
  <2>1. Len(p) \in Nat /\ Len(w) \in Nat /\ Len(p) # 0
    BY LenProperties, EmptySeq
  <2>2. /\ Tail(p) \in Seq(Keys) /\ Len(Tail(p)) = Len(p) - 1 /\ Head(p) \in Keys /\ Head(p) = p[1]
        /\ \A i \in 1 .. Len(p) - 1 : Tail(p)[i] = p[i + 1]
    BY HeadTailProperties
  <2>3. Len(p) - 1 \in Nat /\ Len(p) - 1 + 1 = Len(p)
    BY <2>1
  <2> QED BY <2>1, <2>2, <2>3
<1>3. /\ shifts \in [0 .. n + 1 -> BOOLEAN] /\ places \in [0 .. n + 1 -> 0 .. m]
      /\ shifts[0] = s /\ shifts[n + 1] = h /\ places[0] = q /\ places[n + 1] = m
      /\ \A i \in 1 .. n + 1 : Waits(p, w, shifts, places, i)
  BY <1>1, <1>2 DEF PortWith
<1> DEFINE up == [i \in 0 .. n |-> shifts[i + 1]]
           at == [i \in 0 .. n |-> places[i + 1]]
<1>4. \A i \in 0 .. n : i + 1 \in 0 .. n + 1 /\ i + 1 \in 1 .. n + 1 /\ i + 1 - 1 = i
  OBVIOUS
<1>5. up \in [0 .. n -> BOOLEAN] /\ at \in [0 .. n -> 0 .. m]
  BY <1>3, <1>4
<1>6. \A i \in 0 .. n : up[i] = shifts[i + 1] /\ at[i] = places[i + 1]
  OBVIOUS
<1> HIDE DEF up, at
<1>7. ASSUME NEW i \in 1 .. n PROVE Waits(r, w, up, at, i)
  <2>1. i \in 0 .. n /\ i - 1 \in 0 .. n /\ i - 1 + 1 = i /\ i + 1 - 1 = i /\ i + 1 \in 1 .. n + 1
    OBVIOUS
  <2>2. up[i] = shifts[i + 1] /\ up[i - 1] = shifts[i] /\ at[i] = places[i + 1] /\ at[i - 1] = places[i]
    BY <1>6, <2>1
  <2>3. Waits(p, w, shifts, places, i + 1)
    BY <1>3, <2>1
  <2> QED BY <1>2, <2>1, <2>2, <2>3 DEF Waits
<1>8. /\ shifts[1] = Shifts(s, code)
      /\ places[1] = (IF code \in DOMAIN Shifted THEN q + 1 ELSE q)
      /\ code \in DOMAIN Shifted => w[places[1]] = CharFor(s, code)
  <2>1. Waits(p, w, shifts, places, 1) /\ 1 - 1 = 0
    BY <1>3
  <2> QED BY <1>2, <1>3, <2>1 DEF Waits
<1>9. up[0] = shifts[1] /\ at[0] = places[1] /\ up[n] = h /\ at[n] = m /\ places[1] \in 0 .. m
      /\ q \in 0 .. m
  <2>1. 0 \in 0 .. n /\ n \in 0 .. n /\ 0 + 1 = 1 /\ 1 \in 0 .. n + 1 /\ 0 \in 0 .. n + 1
    OBVIOUS
  <2> QED BY <1>3, <1>6, <2>1
<1>10. PortWith(r, Shifts(s, code), h, w, places[1], up, at)
  BY <1>2, <1>5, <1>7, <1>8, <1>9 DEF PortWith
<1>11. PortHolds(r, Shifts(s, code), h, w, places[1])
  BY <1>10 DEF PortHolds
<1>12. code \in DOMAIN Shifted => q + 1 \in 1 .. Len(w)
  BY <1>2, <1>8, <1>9
<1> QED BY <1>2, <1>8, <1>11, <1>12

-----------------------------------------------------------------------------
(* The bus between them: the keys in flight are those claimed that the editor  *)
(* has not seen, one at most, because the shell polls again only after it has   *)
(* edited what it collected.                                                   *)

EditorNow == [buffer |-> input_buffer, idx |-> buffer_idx, complete |-> line_complete, echo |-> echo]
InFlight == {j \in taken - Len(batch) + 1 .. claims : meant[j].key}
Seen == CASE step \in {"poll", "edit"} -> taken
          [] step = "take" -> taken + reader.left
          [] OTHER -> claims
EchoAt(w, s, d) == Len(s) = d /\ \A i \in 1 .. d : s[i] = EchoOf(Last(LinesAt(w, i - 1)), w[i])
EditorAt(d) == /\ Len(LinesAt(typed, d)) = Len(lines) + 1
               /\ \A i \in 1 .. Len(lines) : lines[i] = LinesAt(typed, d)[i]
               /\ InLast(EditorNow, LinesAt(typed, d)) /\ EchoAt(typed, echo, d)

InputTyped ==
  /\ typed \in Seq(Typings) /\ port \in Seq(Keys \union {Beyond})
  /\ meant \in Seq(KeyPulses) /\ Len(meant) = claims
  /\ isActive = TRUE /\ shift_active \in BOOLEAN /\ DOMAIN reader = {"copying", "left"}
EditorTyped == EditorNow \in EditorStates /\ line_complete = FALSE /\ lines \in Seq(Seq(Typings))
BusSound ==
  /\ batch \in Seq(KeyPulses) /\ Len(batch) <= taken
  /\ \A i \in 1 .. Len(batch) : batch[i] = meant[taken - Len(batch) + i]
  /\ step \in {"poll", "emit", "collect", "take", "edit"}
  /\ step \in {"poll", "emit", "collect"} => batch = <<>>
  /\ step = "take" => reader.copying
  /\ \A j, k \in InFlight : j = k
  /\ \A j \in InFlight : j <= Seen
TextSound(q, d) ==
  /\ port \in Seq(Keys) /\ PortHolds(port, shift_active, held, typed, q)
  /\ d \in 0 .. Len(typed) /\ EditorAt(d)
  /\ InFlight = {} => d = q
  /\ \A j \in InFlight : d + 1 = q /\ typed[q] = Character(meant[j])
Flow == EditorTyped /\ BusSound /\ \E q, d \in Nat : TextSound(q, d)
Unspoilt == ~behind /\ ~overtaken /\ ~beyond
LInv == IF scenario = "line" THEN InputTyped /\ (Unspoilt => Flow)
        ELSE lines = <<>> /\ typed = <<>> /\ echo = <<>>

LEMMA LInvImplies == LInv => LinesAsTyped
<1> SUFFICES ASSUME LInv, ~behind, ~overtaken, ~beyond
             PROVE  /\ Len(lines) < Len(MeantLines) /\ \A n \in DOMAIN lines : lines[n] = MeantLines[n]
                    /\ Len(echo) <= Len(typed)
                    /\ \A n \in DOMAIN echo : echo[n] = EchoOf(Last(LinesAt(typed, n - 1)), typed[n])
  BY DEF LinesAsTyped, LinesAt
<1>1. MeantLines = LinesOf(typed)
  BY DEF MeantLines
<1>2. CASE scenario = "line"
  <2>1. /\ typed \in Seq(Typings) /\ lines \in Seq(Seq(Typings))
        /\ \E q, d \in Nat : TextSound(q, d)
    BY <1>2 DEF LInv, InputTyped, Unspoilt, Flow, EditorTyped
  <2>2. PICK d \in 0 .. Len(typed) : EditorAt(d)
    BY <2>1 DEF TextSound
  <2>3. PICK a, b : a = LinesAt(typed, d) /\ b = LinesOf(typed)
    OBVIOUS
  <2>4. Len(a) <= Len(b) /\ \A i \in 1 .. Len(a) - 1 : b[i] = a[i]
    BY <2>1, <2>3, EndedStay
  <2>5. Len(a) = Len(lines) + 1 /\ \A i \in 1 .. Len(lines) : lines[i] = a[i]
    BY <2>2, <2>3 DEF EditorAt
  <2>6. b \in Lists /\ Len(b) \in Nat /\ Len(lines) \in Nat /\ DOMAIN lines = 1 .. Len(lines)
    <3>1. b \in Lists
      BY <2>1, <2>3, LinesIn
    <3> QED BY <2>1, <3>1, LenProperties DEF Lists
  <2>7. Len(echo) <= Len(typed) /\ \A n \in DOMAIN echo : echo[n] = EchoOf(Last(LinesAt(typed, n - 1)), typed[n])
    <3>1. EchoAt(typed, echo, d) /\ echo \in Seq(Printings)
      BY <1>2, <2>2 DEF EditorAt, LInv, Unspoilt, Flow, EditorTyped, EditorStates, EditorNow
    <3>2. DOMAIN echo = 1 .. Len(echo)
      BY <3>1, LenProperties
    <3>3. Len(typed) \in Nat
      BY <2>1, LenProperties
    <3> QED BY <3>1, <3>2, <3>3 DEF EchoAt
  <2> QED BY <1>1, <2>3, <2>4, <2>5, <2>6, <2>7
<1>3. CASE scenario # "line"
  <2>1. lines = <<>> /\ MeantLines = << <<>> >> /\ echo = <<>> /\ typed = <<>>
    BY <1>1, <1>3, LinesOfNone DEF LInv
  <2> QED BY <2>1
<1> QED BY <1>2, <1>3

LEMMA LInvInit ==
  ASSUME RingInit, InitInput
  PROVE  LInv
<1>1. /\ typed = <<>> /\ port = <<>> /\ meant = <<>> /\ batch = <<>> /\ lines = <<>> /\ echo = <<>>
      /\ claims = 0 /\ taken = 0 /\ isActive = TRUE /\ step = "poll" /\ shift_active = FALSE /\ held = FALSE
      /\ input_buffer = [i \in 0 .. LineSize - 1 |-> NUL] /\ buffer_idx = 0 /\ line_complete = FALSE
  BY DEF RingInit, InitInput
<1>2. InputTyped
  <2>1. Len(meant) = claims /\ shift_active \in BOOLEAN
    BY <1>1
  <2>2. DOMAIN reader = {"copying", "left"}
    BY DEF RingInit, Resting
  <2> QED BY <1>1, <2>1, <2>2 DEF InputTyped
<1>3. EditorTyped
  <2>1. input_buffer \in [0 .. LineSize - 1 -> Typings \union {NUL}] /\ buffer_idx \in 0 .. LineSize - 1
    BY <1>1, LineSizeIs
  <2>2. lines \in Seq(Seq(Typings)) /\ line_complete = FALSE
    BY <1>1
  <2>3. EditorNow \in EditorStates
    <3>1. echo \in Seq(Printings)
      BY <1>1
    <3> QED BY <2>1, <2>2, <3>1 DEF EditorNow, EditorStates
  <2> QED BY <2>2, <2>3 DEF EditorTyped
<1>4. InFlight = {}
  BY <1>1 DEF InFlight
<1>5. BusSound
  BY <1>1, <1>4 DEF BusSound
<1>6. PortHolds(port, shift_active, held, typed, 0)
  <2> DEFINE up == [i \in 0 .. 0 |-> FALSE] at == [i \in 0 .. 0 |-> 0]
  <2>1. PortWith(<<>>, FALSE, FALSE, <<>>, 0, up, at)
    BY DEF PortWith
  <2> QED BY <1>1, <2>1 DEF PortHolds
<1>7. EditorAt(0)
  <2>1. SubSeq(typed, 1, 0) = <<>>
    BY <1>1
  <2>2. LinesAt(typed, 0) = << <<>> >>
    BY <2>1, LinesOfNone DEF LinesAt
  <2>3. InLast(EditorNow, << <<>> >>)
    BY <1>1 DEF InLast, Holds, EditorNow
  <2>4. EchoAt(typed, echo, 0)
    BY <1>1 DEF EchoAt
  <2> QED BY <1>1, <2>2, <2>3, <2>4 DEF EditorAt
<1>8. TextSound(0, 0)
  BY <1>1, <1>4, <1>6, <1>7 DEF TextSound
<1> QED BY <1>1, <1>2, <1>3, <1>5, <1>8 DEF LInv, Flow

\* What was typed before stays typed.
LEMMA TypedStay ==
  ASSUME NEW w \in Seq(Typings), NEW c \in Typings, NEW v, v = w \/ v = Append(w, c)
  PROVE  /\ \A d \in 0 .. Len(w) : LinesAt(v, d) = LinesAt(w, d) /\ d \in 0 .. Len(v)
         /\ \A i \in 1 .. Len(w) : v[i] = w[i]
<1>1. /\ v \in Seq(Typings) /\ Len(w) \in Nat /\ Len(v) \in Nat /\ Len(w) <= Len(v)
      /\ \A i \in 1 .. Len(w) : v[i] = w[i]
  <2>1. CASE v = w
    BY <2>1, LenProperties
  <2>2. CASE v = Append(w, c)
    <3>1. /\ Append(w, c) \in Seq(Typings) /\ Len(Append(w, c)) = Len(w) + 1 /\ Len(w) \in Nat
          /\ \A i \in 1 .. Len(w) : Append(w, c)[i] = w[i]
      BY AppendProperties, LenProperties
    <3> QED BY <2>2, <3>1
  <2> QED BY <2>1, <2>2
<1>2. ASSUME NEW d \in 0 .. Len(w) PROVE LinesAt(v, d) = LinesAt(w, d) /\ d \in 0 .. Len(v)
  <2>1. d \in 0 .. Len(v)
    BY <1>1
  <2>2. PICK a \in Seq(Typings), b \in Seq(Typings) : a = SubSeq(w, 1, d) /\ b = SubSeq(v, 1, d)
    BY <1>1, <2>1, FirstOnes
  <2>3. Len(a) = d /\ Len(b) = d /\ \A i \in 1 .. d : a[i] = w[i] /\ b[i] = v[i]
    BY <1>1, <2>1, <2>2, FirstOnes
  <2>4. \A i \in 1 .. d : i \in 1 .. Len(w)
    BY <1>1
  <2>5. a = b
    BY <1>1, <2>3, <2>4, SeqEqual
  <2> QED BY <2>1, <2>2, <2>5 DEF LinesAt
<1> QED BY <1>1, <1>2

LEMMA FlowPress ==
  ASSUME InputTyped, NEW code \in Keys, PressKey(code)
  PROVE  InputTyped' /\ (Flow => Flow')
<1>1. PICK w, v, h : w = typed /\ v = typed' /\ h = held
  OBVIOUS
<1>2. /\ port' = Append(port, code) /\ held' = Shifts(h, code)
      /\ v = (IF code \in DOMAIN Shifted THEN Append(w, CharFor(h, code)) ELSE w)
  BY <1>1 DEF PressKey, Shifts, CharFor
<1>3. /\ UNCHANGED <<claims, taken, reader, isActive, step, shift_active, meant, batch>>
      /\ UNCHANGED <<input_buffer, buffer_idx, line_complete, echo, lines>>
  BY DEF PressKey, ringVars
<1>4. w \in Seq(Typings) /\ port \in Seq(Keys \union {Beyond})
  BY <1>1 DEF InputTyped
<1>5. Append(port, code) \in Seq(Keys \union {Beyond})
  BY <1>4, AppendProperties
<1>6. CASE ~Flow
  <2>1. v \in Seq(Typings)
    <3>1. CASE code \in DOMAIN Shifted
      <4>1. CharFor(h, code) \in Typings
        BY <3>1, KeyFacts DEF CharFor
      <4> QED BY <1>2, <1>4, <3>1, <4>1, AppendProperties
    <3> QED BY <1>2, <1>4, <3>1
  <2> QED BY <1>1, <1>2, <1>3, <1>5, <1>6, <2>1 DEF InputTyped
<1>7. CASE Flow
  <2>1. PICK q \in Nat, d \in Nat : TextSound(q, d)
    BY <1>7 DEF Flow
  <2>2. port \in Seq(Keys) /\ PortHolds(port, shift_active, h, w, q)
    BY <1>1, <2>1 DEF TextSound
  <2>3. v \in Seq(Typings) /\ PortHolds(Append(port, code), shift_active, Shifts(h, code), v, q)
    BY <1>2, <1>4, <2>2, PortPress
  <2>0. Append(port, code) \in Seq(Keys)
    BY <2>2, AppendProperties
  <2>4. \E c \in Typings : v = w \/ v = Append(w, c)
    <3>1. code \in DOMAIN Shifted => CharFor(h, code) \in Typings
      BY KeyFacts DEF CharFor
    <3>2. "a" \in Typings
      BY DEF Typings
    <3> QED BY <1>2, <3>1, <3>2
  <2>5. /\ \A k \in 0 .. Len(w) : LinesAt(v, k) = LinesAt(w, k) /\ k \in 0 .. Len(v)
        /\ \A i \in 1 .. Len(w) : v[i] = w[i]
    BY <1>4, <2>4, TypedStay
  <2>6. InFlight' = InFlight /\ EditorNow' = EditorNow /\ Seen' = Seen
    BY <1>3 DEF InFlight, EditorNow, Seen
  <2>7. EditorTyped' /\ BusSound'
    BY <1>3, <1>7, <2>6 DEF Flow, EditorTyped, BusSound
  <2>8. d \in 0 .. Len(w) /\ LinesAt(v, d) = LinesAt(w, d) /\ d \in 0 .. Len(v)
    BY <1>1, <2>1, <2>5 DEF TextSound
  <2>9. EditorAt(d)'
    <3>1. d \in Nat /\ Len(w) \in Nat /\ d <= Len(w)
      BY <1>4, <2>8, LenProperties
    <3>2. \A i \in 1 .. d : i - 1 \in 0 .. Len(w) /\ i \in 1 .. Len(w)
      BY <3>1
    <3>3. \A i \in 1 .. d : LinesAt(v, i - 1) = LinesAt(w, i - 1) /\ v[i] = w[i]
      BY <2>5, <3>2
    <3>4. EchoAt(w, echo, d) => EchoAt(v, echo, d)
      BY <3>3 DEF EchoAt
    <3> QED BY <1>1, <1>3, <2>1, <2>6, <2>8, <3>4 DEF TextSound, EditorAt
  <2>10. ASSUME NEW j \in InFlight PROVE d + 1 = q /\ v[q] = Character(meant[j])
    <3>1. d + 1 = q /\ w[q] = Character(meant[j])
      BY <1>1, <2>1 DEF TextSound
    <3>2. q \in 0 .. Len(w)
      BY <1>4, <2>2, PortIn
    <3>3. q \in 1 .. Len(w)
      BY <3>1, <3>2
    <3> QED BY <2>5, <3>1, <3>3
  <2>11. TextSound(q, d)'
    BY <1>1, <1>2, <1>3, <2>0, <2>1, <2>3, <2>6, <2>8, <2>9, <2>10 DEF TextSound
  <2>12. InputTyped'
    BY <1>1, <1>2, <1>3, <1>5, <2>3 DEF InputTyped
  <2> QED BY <2>7, <2>11, <2>12 DEF Flow
<1> QED BY <1>6, <1>7

LEMMA CountsIn ==
  ASSUME RInv, Unspoilt
  PROVE  claims \in Nat /\ taken \in Nat /\ taken <= claims
BY DEF RInv, Unspoilt, RingSound, Counters

\* A key leaves the port and is claimed on the bus.
LEMMA FlowPoll ==
  ASSUME InputTyped, RInv, sys_keyboard_poll
  PROVE  InputTyped' /\ (Unspoilt /\ Flow => Flow')
<1>1. /\ UNCHANGED <<taken, reader, isActive, batch, input_buffer, buffer_idx, line_complete>>
      /\ UNCHANGED <<echo, lines, typed, held>> /\ step = "poll" /\ step' \in {"emit", "collect"}
  BY DEF sys_keyboard_poll, walia_pulse_emit, Claim, ringVars
<1>2. /\ typed \in Seq(Typings) /\ port \in Seq(Keys \union {Beyond}) /\ meant \in Seq(KeyPulses)
      /\ Len(meant) = claims /\ isActive = TRUE /\ claims \in Nat /\ shift_active \in BOOLEAN
      /\ DOMAIN reader = {"copying", "left"}
  BY LenProperties DEF InputTyped
<1>3. EditorNow' = EditorNow /\ Seen' = claims'
  BY <1>1 DEF EditorNow, Seen
<1>4. \A d : EditorAt(d) => EditorAt(d)'
  BY <1>1, <1>3 DEF EditorAt
<1>5. ASSUME Unspoilt, Flow
      PROVE  /\ taken \in Nat /\ taken <= claims /\ batch = <<>> /\ EditorTyped'
             /\ \A j \in taken + 1 .. claims : ~meant[j].key
             /\ \E q \in Nat : PortHolds(port, shift_active, held, typed, q) /\ EditorAt(q)
                              /\ q \in 0 .. Len(typed)
             /\ port \in Seq(Keys)
  <2>1. taken \in Nat /\ taken <= claims
    BY <1>5, CountsIn
  <2>2. batch = <<>> /\ \A j \in InFlight : j <= taken
    BY <1>1, <1>5 DEF Flow, BusSound, Seen
  <2>3. InFlight = {j \in taken + 1 .. claims : meant[j].key}
    BY <2>1, <2>2 DEF InFlight
  <2>4. InFlight = {}
    BY <1>2, <2>1, <2>2, <2>3
  <2>5. EditorTyped'
    BY <1>1, <1>3, <1>5 DEF Flow, EditorTyped
  <2>6. PICK q \in Nat, d \in Nat : TextSound(q, d)
    BY <1>5 DEF Flow
  <2>7. /\ port \in Seq(Keys) /\ PortHolds(port, shift_active, held, typed, q)
        /\ EditorAt(q) /\ q \in 0 .. Len(typed)
    BY <2>4, <2>6 DEF TextSound
  <2> QED BY <2>1, <2>2, <2>3, <2>4, <2>5, <2>7
<1>6. CASE port = <<>> \/ Head(port) \in {"up", "down"}
  <2>0. port = <<>> \/ Mapped(Head(port)) = {NUL}
    BY <1>6 DEF Mapped, Beyond
  <2>1. UNCHANGED <<claims, meant>>
    BY <1>2, <2>0 DEF sys_keyboard_poll, ringVars
  <2>2. \/ UNCHANGED <<port, shift_active>>
        \/ port # <<>> /\ port' = Tail(port) /\ shift_active' = Shifts(shift_active, Head(port))
           /\ Head(port) \in {"up", "down"}
    BY <1>6 DEF sys_keyboard_poll, Shifts
  <2>3. port' \in Seq(Keys \union {Beyond})
    <3>1. port # <<>> => Tail(port) \in Seq(Keys \union {Beyond})
      BY <1>2, HeadTailProperties
    <3> QED BY <1>2, <2>2, <3>1
  <2>4. InputTyped'
    <3>1. shift_active' \in BOOLEAN
      BY <1>2, <2>2 DEF Shifts
    <3> QED BY <1>1, <1>2, <2>1, <2>3, <3>1 DEF InputTyped
  <2>5. ASSUME Unspoilt, Flow PROVE Flow'
    <3>1. InFlight' = {} /\ batch' = <<>> /\ batch' \in Seq(KeyPulses)
      BY <1>1, <1>5, <2>1, <2>5 DEF InFlight
    <3>2. BusSound'
      BY <1>1, <1>5, <2>5, <3>1 DEF BusSound
    <3>3. PICK q \in 0 .. Len(typed) : PortHolds(port, shift_active, held, typed, q) /\ EditorAt(q)
      BY <1>5, <2>5
    <3>4. PortHolds(port', shift_active', held, typed, q)
      <4>1. PICK p, s, h, w : p = port /\ s = shift_active /\ h = held /\ w = typed
        OBVIOUS
      <4>2. p \in Seq(Keys) /\ w \in Seq(Typings) /\ PortHolds(p, s, h, w, q)
        BY <1>2, <1>5, <2>5, <3>3, <4>1
      <4>3. p # <<>> /\ Head(p) \in {"up", "down"} => PortHolds(Tail(p), Shifts(s, Head(p)), h, w, q)
        BY <4>2, PortTakes, KeyFacts
      <4> QED BY <2>2, <3>3, <4>1, <4>3
    <3>7. port' \in Seq(Keys)
      <4>1. port \in Seq(Keys) /\ (port # <<>> => Tail(port) \in Seq(Keys))
        BY <1>5, <2>5, HeadTailProperties
      <4> QED BY <2>2, <4>1
    <3>5. TextSound(q, q)'
      BY <1>1, <1>4, <3>1, <3>3, <3>4, <3>7 DEF TextSound
    <3>6. q \in Nat /\ EditorTyped'
      BY <1>5, <2>5
    <3> QED BY <3>2, <3>5, <3>6 DEF Flow
  <2> QED BY <2>4, <2>5
<1>7. CASE port # <<>> /\ Head(port) \notin {"up", "down", Beyond}
  <2>1. PICK p, s, h, w, code : p = port /\ s = shift_active /\ h = held /\ w = typed /\ code = Head(p)
    OBVIOUS
  <2>2. code \in Keys /\ Tail(p) \in Seq(Keys \union {Beyond}) /\ code \in DOMAIN Shifted
    BY <1>2, <1>7, <2>1, HeadTailProperties, KeyFacts
  <2>0. Mapped(code) = {code} /\ code # NUL
    BY <1>7, <2>1, <2>2, KeyFacts DEF Mapped
  <2> DEFINE sent == [key |-> TRUE, char |-> code, shifted |-> s]
  <2>3. /\ port' = Tail(p) /\ shift_active' = Shifts(s, code) /\ step' = "emit"
        /\ claims' = claims + 1 /\ meant' = Append(meant, sent)
    BY <1>2, <1>7, <2>0, <2>1 DEF sys_keyboard_poll, walia_pulse_emit, Claim, Shifts
  <2>4. sent \in KeyPulses /\ sent.key /\ Character(sent) = CharFor(s, code)
    BY <1>2, <2>1, <2>2, KeyFacts DEF KeyPulses, Character, CharFor
  <2> HIDE DEF sent
  <2>5. /\ meant' \in Seq(KeyPulses) /\ Len(meant') = claims + 1 /\ meant'[claims + 1] = sent
        /\ \A j \in 1 .. claims : meant'[j] = meant[j]
    BY <1>2, <2>3, <2>4, AppendProperties
  <2>6. InputTyped'
    <3>1. shift_active' \in BOOLEAN
      BY <1>2, <2>1, <2>3 DEF Shifts
    <3> QED BY <1>1, <1>2, <2>1, <2>2, <2>3, <2>5, <3>1 DEF InputTyped
  <2>7. ASSUME Unspoilt, Flow PROVE Flow'
    <3>1. PICK d \in Nat : PortHolds(p, s, h, w, d) /\ EditorAt(d) /\ d \in 0 .. Len(w)
      BY <1>5, <2>1, <2>7
    <3>2. d + 1 \in 1 .. Len(w) /\ w[d + 1] = CharFor(s, code) /\ PortHolds(Tail(p), Shifts(s, code), h, w, d + 1)
      <4>1. p \in Seq(Keys) /\ p # <<>> /\ w \in Seq(Typings)
        BY <1>2, <1>5, <1>7, <2>1, <2>7
      <4> QED BY <2>1, <2>2, <3>1, <4>1, PortTakes
    <3>3. InFlight' = {claims + 1}
      <4>1. taken \in Nat /\ taken <= claims /\ batch = <<>> /\ \A j \in taken + 1 .. claims : ~meant[j].key
        BY <1>5, <2>7
      <4>2. InFlight' = {j \in taken + 1 .. claims + 1 : meant'[j].key}
        <5>1. taken' - Len(batch') + 1 = taken + 1
          BY <1>1, <4>1
        <5> QED BY <2>3, <5>1 DEF InFlight
      <4>3. \A j \in taken + 1 .. claims + 1 : j = claims + 1 \/ (j \in taken + 1 .. claims /\ j \in 1 .. claims)
        BY <1>2, <4>1
      <4>4. claims + 1 \in taken + 1 .. claims + 1
        BY <1>2, <4>1
      <4> QED BY <2>4, <2>5, <4>1, <4>2, <4>3, <4>4
    <3>4. BusSound'
      <4>1. batch' = <<>> /\ batch' \in Seq(KeyPulses) /\ taken' \in Nat
        BY <1>1, <1>5, <2>7
      <4> QED BY <1>2, <1>3, <2>3, <3>3, <4>1 DEF BusSound
    <3>5. TextSound(d + 1, d)'
      <4>1. typed'[d + 1] = Character(meant'[claims + 1])
        BY <1>1, <2>1, <2>4, <2>5, <3>2
      <4>2. EditorAt(d)' /\ typed' = w /\ held' = h /\ d \in 0 .. Len(w)
        BY <1>1, <1>4, <2>1, <3>1
      <4>3. port' \in Seq(Keys)
        <5>1. p \in Seq(Keys)
          BY <1>5, <2>1, <2>7
        <5> QED BY <1>7, <2>1, <2>3, <5>1, HeadTailProperties
      <4> QED BY <2>3, <3>2, <3>3, <4>1, <4>2, <4>3 DEF TextSound
    <3>6. d + 1 \in Nat /\ EditorTyped'
      BY <1>5, <2>7
    <3> QED BY <3>1, <3>4, <3>5, <3>6 DEF Flow
  <2> QED BY <2>6, <2>7
<1>8. CASE port # <<>> /\ Head(port) = Beyond
  <2>1. ASSUME Unspoilt, Flow PROVE FALSE
    <3>1. port \in Seq(Keys) /\ Beyond \notin Keys
      BY <1>5, <2>1, KeyFacts
    <3>2. Head(port) \in Keys
      BY <1>8, <3>1, HeadTailProperties
    <3> QED BY <1>8, <3>1, <3>2
  <2>2. Mapped(Beyond) = DOMAIN Shifted \union {NUL}
    BY DEF Mapped
  <2>3. /\ port' = Tail(port) /\ shift_active' \in BOOLEAN
        /\ \/ UNCHANGED <<claims, meant>>
           \/ claims' = claims + 1 /\ \E c \in DOMAIN Shifted :
                meant' = Append(meant, [key |-> TRUE, char |-> c, shifted |-> shift_active])
    BY <1>2, <1>8, <2>2 DEF sys_keyboard_poll, walia_pulse_emit, Claim, ringVars
  <2>4. meant' \in Seq(KeyPulses) /\ Len(meant') = claims'
    <3>1. CASE UNCHANGED <<claims, meant>>
      BY <1>2, <3>1
    <3>2. CASE ~ UNCHANGED <<claims, meant>>
      <4>1. PICK c \in DOMAIN Shifted : /\ claims' = claims + 1
              /\ meant' = Append(meant, [key |-> TRUE, char |-> c, shifted |-> shift_active])
        BY <2>3, <3>2
      <4> DEFINE m == [key |-> TRUE, char |-> c, shifted |-> shift_active]
      <4>2. m \in KeyPulses
        BY <1>2, KeyFacts DEF KeyPulses
      <4>3. meant' = Append(meant, m)
        BY <4>1
      <4> HIDE DEF m
      <4> QED BY <1>2, <4>1, <4>2, <4>3, AppendProperties
    <3> QED BY <3>1, <3>2
  <2>5. Tail(port) \in Seq(Keys \union {Beyond})
    BY <1>2, <1>8, HeadTailProperties
  <2>6. InputTyped'
    BY <1>1, <1>2, <2>3, <2>4, <2>5 DEF InputTyped
  <2> QED BY <2>1, <2>6
<1> QED BY <1>6, <1>7, <1>8

\* A key behind the map's end ends what is promised.
LEMMA FlowBeyond ==
  ASSUME InputTyped, PressBeyond
  PROVE  InputTyped' /\ ~ Unspoilt'
<1>1. /\ UNCHANGED <<claims, reader, isActive, shift_active, meant, typed>>
      /\ port' = Append(port, Beyond) /\ beyond'
  BY DEF PressBeyond, ringVars
<1>2. Append(port, Beyond) \in Seq(Keys \union {Beyond})
  BY AppendProperties DEF InputTyped
<1> QED BY <1>1, <1>2 DEF InputTyped, Unspoilt

LEMMA FlowOther ==
  ASSUME InputTyped, RInv, Emit \/ \E s \in Senders : EmitOther(s)
  PROVE  InputTyped' /\ (Unspoilt /\ Flow => Flow')
<1>1. /\ UNCHANGED <<taken, reader, isActive, batch, input_buffer, buffer_idx, line_complete>>
      /\ UNCHANGED <<echo, lines, typed, held, port, shift_active>>
      /\ step' = step \/ (step = "emit" /\ step' = "collect")
  BY DEF Emit, EmitOther, walia_pulse_emit, Claim, Deposit
<1>2. UNCHANGED <<claims, meant>> \/ (claims' = claims + 1 /\ meant' = Append(meant, Other) /\ step' = step)
  BY DEF Emit, EmitOther, walia_pulse_emit, Claim, Deposit
<1>3. meant \in Seq(KeyPulses) /\ Len(meant) = claims /\ claims \in Nat
  BY LenProperties DEF InputTyped
<1>4. Other \in KeyPulses /\ ~Other.key
  BY DEF Other, KeyPulses
<1>5. /\ meant' \in Seq(KeyPulses) /\ Len(meant') = claims' /\ claims' \in Nat /\ claims <= claims'
      /\ \A j \in 1 .. claims : meant'[j] = meant[j]
      /\ \A j \in claims + 1 .. claims' : ~meant'[j].key
  <2>1. CASE UNCHANGED <<claims, meant>>
    BY <1>3, <2>1
  <2>2. CASE claims' = claims + 1 /\ meant' = Append(meant, Other)
    <3> HIDE DEF Other
    <3>1. /\ Append(meant, Other) \in Seq(KeyPulses) /\ Len(Append(meant, Other)) = claims + 1
          /\ Append(meant, Other)[claims + 1] = Other
          /\ \A j \in 1 .. claims : Append(meant, Other)[j] = meant[j]
      BY <1>3, <1>4, AppendProperties
    <3>2. \A j \in claims + 1 .. claims + 1 : j = claims + 1
      BY <1>3
    <3> QED BY <1>3, <1>4, <2>2, <3>1, <3>2
  <2> QED BY <1>2, <2>1, <2>2
<1>6. InputTyped'
  BY <1>1, <1>5 DEF InputTyped
<1>7. EditorNow' = EditorNow /\ \A d : EditorAt(d) => EditorAt(d)'
  BY <1>1 DEF EditorNow, EditorAt
<1>8. ASSUME Unspoilt, Flow PROVE Flow'
  <2>1. taken \in Nat /\ taken <= claims /\ batch \in Seq(KeyPulses) /\ Len(batch) \in Nat /\ Len(batch) <= taken
    BY <1>8, CountsIn, LenProperties DEF Flow, BusSound
  <2>2. InFlight' = InFlight
    <3>1. PICK low \in Nat : low = taken - Len(batch)
      BY <2>1
    <3>2. \A j \in low + 1 .. claims' : (j \in 1 .. claims /\ j \in low + 1 .. claims) \/ j \in claims + 1 .. claims'
      BY <1>3, <1>5
    <3>3. \A j \in low + 1 .. claims : j \in 1 .. claims /\ j \in low + 1 .. claims'
      BY <1>3, <1>5
    <3>4. InFlight = {j \in low + 1 .. claims : meant[j].key} /\ InFlight' = {j \in low + 1 .. claims' : meant'[j].key}
      BY <1>1, <3>1 DEF InFlight
    <3> QED BY <1>5, <3>2, <3>3, <3>4
  <2>3. \A j \in InFlight : j \in 1 .. claims /\ meant'[j] = meant[j]
    BY <1>3, <1>5, <2>1 DEF InFlight
  <2>4. \A j \in InFlight : j <= Seen'
    <3>1. \A j \in InFlight : j <= Seen /\ j <= claims /\ j \in Nat
      BY <1>8, <2>3 DEF Flow, BusSound
    <3>2. Seen' = Seen \/ Seen' = claims'
      BY <1>1 DEF Seen
    <3> QED BY <1>3, <1>5, <3>1, <3>2
  <2>5. \A i \in 1 .. Len(batch) : meant'[taken - Len(batch) + i] = meant[taken - Len(batch) + i]
    <3>1. \A i \in 1 .. Len(batch) : taken - Len(batch) + i \in 1 .. claims
      BY <1>3, <2>1
    <3> QED BY <1>5, <3>1
  <2>6. BusSound'
    BY <1>1, <1>8, <2>2, <2>4, <2>5 DEF Flow, BusSound
  <2>7. EditorTyped'
    BY <1>1, <1>7, <1>8 DEF Flow, EditorTyped
  <2>8. PICK q \in Nat, d \in Nat : TextSound(q, d)
    BY <1>8 DEF Flow
  <2>9. TextSound(q, d)'
    BY <1>1, <1>7, <2>2, <2>3, <2>8 DEF TextSound
  <2> QED BY <2>6, <2>7, <2>9 DEF Flow
<1> QED BY <1>6, <1>8

\* The wrapped counters give the distance itself when it is no more than the ring.
LEMMA LagIs ==
  ASSUME RingSound
  PROVE  Lag(tail) = claims - taken
<1>1. claims \in Nat /\ taken \in Nat /\ taken <= claims /\ claims - taken <= Size /\ tail = taken % Wrap
  BY DEF RingSound, Counters, TailSound
<1>2. Wrap \in Nat /\ Wrap > 0 /\ Size \in Nat /\ Size < Wrap
  BY RingFacts, SizeAssumption
<1>3. PICK q \in Nat, r \in 0 .. Wrap - 1 : taken = r + q * Wrap /\ taken % Wrap = r /\ taken \div Wrap = q
  BY <1>1, <1>2, Division
<1>4. PICK p \in Nat, x \in 0 .. Wrap - 1 : claims = x + p * Wrap /\ claims % Wrap = x /\ claims \div Wrap = p
  BY <1>1, <1>2, Division
<1>5. (q < p => q * Wrap + Wrap <= p * Wrap) /\ (p < q => p * Wrap + Wrap <= q * Wrap)
  BY <1>2, MultipleStep
<1>6. q + 1 < p => (q + 1) * Wrap + Wrap <= p * Wrap
  BY <1>2, MultipleStep
<1>7. PICK a \in Nat, b \in Nat : a = q * Wrap /\ b = p * Wrap
  BY <1>2
<1>8. (q + 1) * Wrap = a + Wrap
  BY <1>2, <1>7
<1>9. q <= p
  BY <1>1, <1>2, <1>3, <1>4, <1>5, <1>7
<1> DEFINE y == x + Wrap - r
<1>10. y \in Nat /\ y < 2 * Wrap
  BY <1>2
<1>11. y % Wrap = IF y < Wrap THEN y ELSE y - Wrap
  <2> HIDE DEF y
  <2> QED BY <1>2, <1>10, RingStep
<1>12. CASE q = p
  <2>1. a = b /\ x - r = claims - taken /\ ~ y < Wrap
    BY <1>1, <1>2, <1>3, <1>4, <1>7, <1>12
  <2> QED BY <1>1, <1>2, <1>3, <1>4, <1>11, <2>1 DEF Lag, Counter
<1>13. CASE q < p
  <2>1. p = q + 1
    BY <1>1, <1>2, <1>3, <1>4, <1>6, <1>7, <1>8, <1>13
  <2>2. b = a + Wrap
    BY <1>7, <1>8, <2>1
  <2>3. y = claims - taken /\ y < Wrap
    BY <1>1, <1>2, <1>3, <1>4, <1>7, <2>2
  <2> QED BY <1>1, <1>3, <1>4, <1>11, <2>3 DEF Lag, Counter
<1> QED BY <1>9, <1>12, <1>13

LEMMA FlowCollect ==
  ASSUME InputTyped, RInv, CollectPulses
  PROVE  InputTyped' /\ (Unspoilt /\ Unspoilt' /\ Flow => Flow')
<1>1. /\ UNCHANGED <<claims, isActive, input_buffer, buffer_idx, line_complete>>
      /\ UNCHANGED <<echo, lines, typed, held, port, shift_active, meant>>
      /\ step = "collect" /\ batch' = <<>>
  BY DEF CollectPulses, Collect, ringVars
<1>2. InputTyped'
  <2>1. DOMAIN reader' = {"copying", "left"}
    BY DEF InputTyped, CollectPulses, Collect, ringVars
  <2> QED BY <1>1, <2>1 DEF InputTyped
<1>3. EditorNow' = EditorNow /\ \A d : EditorAt(d) => EditorAt(d)'
  BY <1>1 DEF EditorNow, EditorAt
<1>4. ASSUME Unspoilt, Unspoilt', Flow PROVE Flow'
  <2>1. RingSound
    BY <1>4 DEF RInv, Unspoilt
  <2>2. /\ taken \in Nat /\ claims \in Nat /\ taken <= claims /\ claims - taken <= Size
        /\ Lag(tail) = claims - taken /\ Size \in Nat /\ Batch \in Nat
    BY <2>1, LagIs, RingFacts DEF RingSound, Counters
  <2>3. /\ taken' = taken
        /\ \/ step' = "edit" /\ claims = taken
           \/ step' = "take" /\ reader'.copying /\ reader'.left = claims - taken
    <3>1. CASE Lag(tail) = 0
      BY <2>2, <3>1 DEF CollectPulses, ringVars
    <3>2. CASE Lag(tail) # 0
      <4>0. Collect /\ step' = "take" /\ behind' = (behind \/ Lag(tail) > Batch)
        BY <3>2 DEF CollectPulses
      <4>3. ~behind'
        BY <1>4 DEF Unspoilt
      <4>4. ~ (Lag(tail) > Batch)
        BY <4>0, <4>3, Zenon
      <4>1. Collect /\ step' = "take" /\ ~ Lag(tail) > Batch /\ ~ Lag(tail) > Size
        BY <2>2, <4>0, <4>4
      <4>2. taken' = taken /\ reader' = [copying |-> TRUE, left |-> Lag(tail)]
        BY <4>1 DEF Collect
      <4> QED BY <2>2, <4>1, <4>2
    <3> QED BY <3>1, <3>2
  <2>4. batch = <<>>
    BY <1>1, <1>4 DEF Flow, BusSound
  <2>5. InFlight' = InFlight
    BY <1>1, <2>3, <2>4 DEF InFlight
  <2>6. \A j \in InFlight : j <= Seen'
    <3>1. \A j \in InFlight : j \in taken + 1 .. claims
      BY <2>2, <2>4 DEF InFlight
    <3>2. Seen' = claims
      BY <2>2, <2>3 DEF Seen
    <3> QED BY <2>2, <3>1, <3>2
  <2>7. BusSound'
    <3>1. batch' \in Seq(KeyPulses) /\ Len(batch') = 0
      BY <1>1
    <3>2. \A j, k \in InFlight : j = k
      BY <1>4 DEF Flow, BusSound
    <3> QED BY <1>1, <2>2, <2>3, <2>5, <2>6, <3>1, <3>2 DEF BusSound
  <2>8. EditorTyped'
    BY <1>1, <1>3, <1>4 DEF Flow, EditorTyped
  <2>9. PICK q \in Nat, d \in Nat : TextSound(q, d)
    BY <1>4 DEF Flow
  <2>10. TextSound(q, d)'
    BY <1>1, <1>3, <2>5, <2>9 DEF TextSound
  <2> QED BY <2>7, <2>8, <2>10 DEF Flow
<1> QED BY <1>2, <1>4

LEMMA FlowTake ==
  ASSUME InputTyped, RInv, TakePulse
  PROVE  InputTyped' /\ (Unspoilt /\ Unspoilt' /\ Flow => Flow')
<1>1. /\ UNCHANGED <<claims, isActive, input_buffer, buffer_idx, line_complete>>
      /\ UNCHANGED <<echo, lines, typed, held, port, shift_active, meant>>
      /\ step = "take" /\ batch' = Append(batch, PulseIn(last'.pulse)) /\ taken' = taken + 1
      /\ last'.position = taken /\ reader.copying
      /\ reader' = (IF reader.left = 1 THEN Resting ELSE [reader EXCEPT !.left = reader.left - 1])
      /\ step' = (IF reader'.copying THEN "take" ELSE "edit")
  BY DEF TakePulse, Take
<1>2. InputTyped'
  <2>1. DOMAIN reader' = {"copying", "left"}
    BY <1>1 DEF InputTyped, Resting
  <2> QED BY <1>1, <2>1 DEF InputTyped
<1>3. EditorNow' = EditorNow /\ \A d : EditorAt(d) => EditorAt(d)'
  BY <1>1 DEF EditorNow, EditorAt
<1>4. ASSUME Unspoilt, Unspoilt', Flow PROVE Flow'
  <2>1. /\ taken \in Nat /\ claims \in Nat /\ taken < claims
        /\ reader.left \in Nat /\ 0 < reader.left /\ reader.left <= claims - taken
    BY <1>1, <1>4 DEF RInv, Unspoilt, RingSound, Counters
  <2>2. RInv'
    BY RInvTake DEF TakePulse
  <2>3. last'.pulse.type = taken /\ last'.pulse.payload = taken
    <3>1. \A f \in Fields : last'.pulse[f] = taken
      BY <1>1, <1>4, <2>2 DEF RInv, Unspoilt, RingSound, LastWhole
    <3>2. "type" \in Fields /\ "payload" \in Fields
      BY DEF Fields
    <3> QED BY <3>1, <3>2
  <2>4. PICK p \in KeyPulses : p = meant[taken + 1]
    <3>1. taken + 1 \in 1 .. Len(meant)
      BY <2>1 DEF InputTyped
    <3> QED BY <3>1, ElementOfSeq DEF InputTyped
  <2>5. PulseIn(last'.pulse) = p
    <3>1. taken # Blank
      BY <2>1, BlankAssumption
    <3>2. PulseIn(last'.pulse) = [p EXCEPT !.key = p.key]
      BY <2>3, <2>4, <3>1 DEF PulseIn
    <3>3. [p EXCEPT !.key = p.key] = p
      BY DEF KeyPulses
    <3> QED BY <3>2, <3>3
  <2>6. /\ batch \in Seq(KeyPulses) /\ Len(batch) \in Nat /\ Len(batch) <= taken
        /\ \A i \in 1 .. Len(batch) : batch[i] = meant[taken - Len(batch) + i]
    BY <1>4, LenProperties DEF Flow, BusSound
  <2>7. PICK n \in Nat : n = Len(batch)
    BY <2>6
  <2>8. /\ batch' \in Seq(KeyPulses) /\ Len(batch') = n + 1 /\ batch'[n + 1] = p
        /\ \A i \in 1 .. n : batch'[i] = batch[i]
    BY <1>1, <2>5, <2>6, <2>7, AppendProperties
  <2>9. taken' - Len(batch') = taken - n
    BY <1>1, <2>1, <2>8
  <2>10. \A i \in 1 .. n + 1 : batch'[i] = meant[taken - n + i]
    <3> TAKE i \in 1 .. n + 1
    <3>1. CASE i = n + 1
      <4>1. taken - n + i = taken + 1
        BY <2>1, <3>1
      <4> QED BY <2>4, <2>8, <3>1, <4>1
    <3>2. CASE i # n + 1
      <4>1. i \in 1 .. n
        BY <3>2
      <4> QED BY <2>6, <2>7, <2>8, <4>1
    <3> QED BY <3>1, <3>2
  <2>11. InFlight' = InFlight
    BY <1>1, <2>7, <2>9 DEF InFlight
  <2>12. Seen' = Seen /\ (step' = "take" => reader'.copying) /\ step' \in {"take", "edit"}
    <3>1. CASE reader.left = 1
      <4>1. step' = "edit"
        BY <1>1, <3>1 DEF Resting
      <4> QED BY <1>1, <2>1, <3>1, <4>1 DEF Seen
    <3>2. CASE reader.left # 1
      <4>1. reader' = [reader EXCEPT !.left = reader.left - 1]
        BY <1>1, <3>2
      <4>2. DOMAIN reader = {"copying", "left"}
        BY DEF InputTyped
      <4>3. reader'.copying /\ reader'.left = reader.left - 1
        BY <1>1, <4>1, <4>2
      <4> QED BY <1>1, <2>1, <4>3 DEF Seen
    <3> QED BY <3>1, <3>2
  <2>13. BusSound'
    <3>1. (\A j, k \in InFlight : j = k) /\ \A j \in InFlight : j <= Seen
      BY <1>4 DEF Flow, BusSound
    <3>2. n + 1 <= taken + 1
      BY <2>1, <2>6, <2>7
    <3> QED BY <1>1, <2>8, <2>9, <2>10, <2>11, <2>12, <3>1, <3>2 DEF BusSound
  <2>14. EditorTyped'
    BY <1>1, <1>3, <1>4 DEF Flow, EditorTyped
  <2>15. PICK q \in Nat, d \in Nat : TextSound(q, d)
    BY <1>4 DEF Flow
  <2>16. TextSound(q, d)'
    BY <1>1, <1>3, <2>11, <2>15 DEF TextSound
  <2> QED BY <2>13, <2>14, <2>16 DEF Flow
<1> QED BY <1>2, <1>4

\* The editor looks at what was collected: at most one key of it.
LEMMA FlowEdit ==
  ASSUME InputTyped, RInv, Edit
  PROVE  InputTyped' /\ (Unspoilt /\ Flow => Flow')
<1> DEFINE e == FoldLeft(ProcessKey, EditorNow, batch)
<1>1. /\ UNCHANGED <<claims, taken, reader, isActive, typed, held, port, shift_active, meant>>
      /\ step = "edit" /\ step' = "poll" /\ batch' = <<>> /\ line_complete' = FALSE /\ echo' = e.echo
      /\ input_buffer' = (IF e.complete THEN [i \in 0 .. LineSize - 1 |-> NUL] ELSE e.buffer)
      /\ buffer_idx' = (IF e.complete THEN 0 ELSE e.idx)
      /\ lines' = (IF e.complete THEN Append(lines, StringIn(e.buffer)) ELSE lines)
  BY DEF Edit, EditorNow, ringVars
<1>2. InputTyped'
  BY <1>1 DEF InputTyped
<1>3. ASSUME Unspoilt, Flow PROVE Flow'
  <2>1. /\ taken \in Nat /\ claims \in Nat /\ taken <= claims
        /\ batch \in Seq(KeyPulses) /\ Len(batch) \in Nat /\ Len(batch) <= taken
        /\ \A i \in 1 .. Len(batch) : batch[i] = meant[taken - Len(batch) + i]
    BY <1>3, CountsIn, LenProperties DEF Flow, BusSound
  <2>2. \A j, k \in InFlight : j = k
    BY <1>3 DEF Flow, BusSound
  <2>3. \A j \in InFlight : j <= taken
    BY <1>1, <1>3 DEF Flow, BusSound, Seen
  <2>4. PICK n \in Nat, low \in Nat : n = Len(batch) /\ low = taken - n
    BY <2>1
  <2>5. InFlight = {j \in low + 1 .. claims : meant[j].key}
    BY <2>4 DEF InFlight
  <2>6. InFlight' = {}
    <3>1. InFlight' = {j \in taken + 1 .. claims : meant[j].key}
      <4>1. taken' - Len(batch') + 1 = taken + 1
        BY <1>1, <2>1
      <4> QED BY <1>1, <4>1 DEF InFlight
    <3>2. \A j \in taken + 1 .. claims : j \in low + 1 .. claims /\ ~ j <= taken
      BY <2>1, <2>4
    <3> QED BY <2>3, <2>5, <3>1, <3>2
  <2>7. BusSound'
    <3>1. batch' \in Seq(KeyPulses) /\ Len(batch') = 0
      BY <1>1
    <3> QED BY <1>1, <2>1, <2>6, <3>1 DEF BusSound
  <2>8. PICK q \in Nat, d \in Nat : TextSound(q, d)
    BY <1>3 DEF Flow
  <2>9. /\ PortHolds(port, shift_active, held, typed, q) /\ EditorAt(d) /\ d \in 0 .. Len(typed)
        /\ typed \in Seq(Typings) /\ port \in Seq(Keys)
    BY <2>8 DEF TextSound, InputTyped
  <2>10. q \in 0 .. Len(typed)
    BY <2>9, PortIn
  <2>11. PICK now \in EditorStates : now = EditorNow /\ now.complete = FALSE
    BY <1>3 DEF Flow, EditorTyped, EditorNow
  <2>12. lines \in Seq(Seq(Typings))
    BY <1>3 DEF Flow, EditorTyped
  <2>13. e \in EditorStates /\ EditorTyped' /\ EditorAt(q)'
    <3>1. CASE InFlight = {}
      <4>1. \A i \in 1 .. n : ~batch[i].key
        <5> TAKE i \in 1 .. n
        <5>1. low + i \in low + 1 .. claims /\ batch[i] = meant[low + i]
          BY <2>1, <2>4
        <5> QED BY <2>5, <3>1, <5>1
      <4>2. e = now
        BY <2>1, <2>4, <2>11, <4>1, EditedNone
      <4> HIDE DEF e
      <4>3. e.buffer = input_buffer /\ e.idx = buffer_idx /\ e.complete = FALSE /\ e.echo = echo
        BY <2>11, <4>2 DEF EditorNow
      <4>4. UNCHANGED <<input_buffer, buffer_idx, line_complete, echo, lines>>
        BY <1>1, <1>3, <4>3 DEF Flow, EditorTyped
      <4>5. EditorNow' = EditorNow
        BY <4>4 DEF EditorNow
      <4>6. EditorTyped'
        BY <1>3, <4>4, <4>5 DEF Flow, EditorTyped
      <4>7. d = q
        BY <2>8, <3>1 DEF TextSound
      <4>8. EditorAt(q)'
        BY <1>1, <2>9, <4>4, <4>5, <4>7 DEF EditorAt
      <4> QED BY <2>11, <4>2, <4>6, <4>8
    <3>2. CASE InFlight # {}
      <4>1. PICK j \in InFlight : TRUE
        BY <3>2
      <4>2. j \in low + 1 .. claims /\ meant[j].key /\ j <= taken /\ j \in Nat
        BY <2>3, <2>4, <2>5, <4>1
      <4>3. PICK k \in 1 .. n : low + k = j /\ k = j - low
        <5>1. j \in Nat /\ low \in Nat /\ n \in Nat /\ j > low /\ j <= low + n
          BY <2>1, <2>4, <4>2
        <5>2. j - low \in 1 .. n /\ low + (j - low) = j
          BY ONLY <5>1
        <5> QED BY <5>2
      <4>4. PICK p \in KeyPulses : p = batch[k] /\ p = meant[j] /\ p.key
        BY <2>1, <2>4, <4>2, <4>3, ElementOfSeq
      <4>5. \A i \in 1 .. n : batch[i].key => i = k
        <5> TAKE i \in 1 .. n
        <5>1. low + i \in low + 1 .. claims /\ batch[i] = meant[low + i] /\ (low + i = j => i = k)
          BY <2>1, <2>4, <4>3
        <5> QED BY <2>2, <2>5, <4>1, <5>1
      <4>6. e = ProcessKey(now, p)
        BY <2>1, <2>4, <2>11, <4>3, <4>4, <4>5, EditedOne
      <4>7. d + 1 = q /\ typed[q] = Character(p)
        BY <2>8, <4>1, <4>4 DEF TextSound
      <4>8. q \in 1 .. Len(typed) /\ q - 1 = d
        BY <2>10, <4>7
      <4>9. PICK m \in Lists : m = LinesAt(typed, d) /\ LinesAt(typed, q) = LinesAfter(m, Character(p))
        BY <2>9, <4>7, <4>8, OneMore
      <4>10. PICK after \in Lists : after = LinesAfter(m, Character(p)) /\ after = LinesAt(typed, q)
        <5>1. Character(p) \in Typings
          BY <2>9, <4>7, <4>8, OneMore
        <5> QED BY <4>9, <5>1, LinesAfterIs
      <4>11. /\ Len(m) = Len(lines) + 1 /\ Len(lines) \in Nat /\ \A i \in 1 .. Len(lines) : lines[i] = m[i]
             /\ InLast(now, m)
        BY <2>9, <2>11, <2>12, <4>9, LenProperties DEF EditorAt
      <4>12. PICK r \in EditorStates : r = e /\ r = ProcessKey(now, p)
        BY <4>6, ProcessIs
      <4>13. /\ r.complete => /\ Len(after) = Len(m) + 1 /\ after[Len(m) + 1] = <<>>
                              /\ \A i \in 1 .. Len(m) : after[i] = m[i]
                              /\ StringIn(r.buffer) = m[Len(m)]
             /\ ~r.complete => /\ Len(after) = Len(m) /\ \A i \in 1 .. Len(m) - 1 : after[i] = m[i]
                               /\ InLast(r, after)
        <5>1. now \in EditorStates /\ now.complete = FALSE /\ m \in Lists /\ InLast(now, m)
              /\ p \in KeyPulses /\ p.key
          BY <2>11, <4>4, <4>9, <4>11
        <5>2. Finished(ProcessKey(now, p), m, LinesAfter(m, Character(p)))
          BY ONLY <5>1, KeyEdits
        <5>3. Finished(r, m, after)
          BY <4>10, <4>12, <5>2
        <5> QED BY <5>3 DEF Finished
      <4>16. r.echo = Append(echo, EchoOf(Last(m), typed[q]))
        <5>1. now \in EditorStates /\ now.complete = FALSE /\ m \in Lists /\ InLast(now, m)
              /\ p \in KeyPulses /\ p.key
          BY <2>11, <4>4, <4>9, <4>11
        <5>2. ProcessKey(now, p).echo = Append(now.echo, EchoOf(Last(m), Character(p)))
          BY ONLY <5>1, KeyEdits
        <5>3. now.echo = echo
          BY <2>11 DEF EditorNow
        <5> QED BY <4>7, <4>12, <5>2, <5>3
      <4>17. echo' = r.echo /\ echo' \in Seq(Printings)
        BY <1>1, <4>12 DEF EditorStates
      <4>18. EchoAt(typed, echo', q)
        <5>1. EchoAt(typed, echo, d) /\ echo \in Seq(Printings)
          BY <1>3, <2>9 DEF EditorAt, Flow, EditorTyped, EditorNow, EditorStates
        <5>2. PICK x : x = EchoOf(Last(m), typed[q])
          OBVIOUS
        <5>3. echo' = Append(echo, x)
          BY <4>16, <4>17, <5>2
        <5>4. /\ Len(echo) = d /\ d \in Nat /\ q = d + 1 /\ DOMAIN echo = 1 .. d
          BY <4>7, <5>1, LenProperties DEF EchoAt
        <5>5. Len(echo') = q /\ echo'[q] = x /\ \A i \in 1 .. d : echo'[i] = echo[i]
          BY <5>1, <5>3, <5>4
        <5>6. x = EchoOf(Last(LinesAt(typed, q - 1)), typed[q])
          BY <4>8, <4>9, <5>2
        <5>7. \A i \in 1 .. q : i = q \/ i \in 1 .. d
          BY <5>4
        <5> QED BY <5>1, <5>5, <5>6, <5>7 DEF EchoAt
      <4> HIDE DEF e
      <4>14. CASE r.complete
        <5> DEFINE none == [i \in 0 .. LineSize - 1 |-> NUL]
        <5>1. /\ input_buffer' = none /\ buffer_idx' = 0 /\ line_complete' = FALSE
              /\ lines' = Append(lines, m[Len(m)])
          BY <1>1, <4>12, <4>13, <4>14
        <5>2. m[Len(m)] \in Seq(Typings)
          <6>1. Len(m) \in 1 .. Len(m) /\ m \in Seq(Seq(Typings))
            BY <4>11 DEF Lists
          <6> QED BY <6>1, ElementOfSeq
        <5>3. /\ lines' \in Seq(Seq(Typings)) /\ Len(lines') = Len(lines) + 1
              /\ lines'[Len(lines) + 1] = m[Len(m)] /\ \A i \in 1 .. Len(lines) : lines'[i] = lines[i]
          BY <2>12, <5>1, <5>2, AppendProperties
        <5>4. EditorNow' \in EditorStates
          <6>1. none \in [0 .. LineSize - 1 -> Typings \union {NUL}] /\ 0 \in 0 .. LineSize - 1
            BY LineSizeIs
          <6> HIDE DEF none
          <6> QED BY <4>17, <5>1, <6>1 DEF EditorNow, EditorStates
        <5> HIDE DEF none
        <5>5. Len(after) = Len(lines') + 1
          BY <4>11, <4>13, <4>14, <5>3
        <5>6. \A i \in 1 .. Len(lines') : lines'[i] = after[i]
          <6>1. \A i \in 1 .. Len(lines') : i \in 1 .. Len(m) /\ (i = Len(lines) + 1 \/ i \in 1 .. Len(lines))
            BY <4>11, <5>3
          <6> QED BY <4>11, <4>13, <4>14, <5>3, <6>1
        <5>7. InLast(EditorNow', after)
          <6>1. after[Len(after)] = <<>> /\ EditorNow'.idx = 0
            BY <4>13, <4>14, <5>1 DEF EditorNow
          <6> QED BY <6>1 DEF InLast, Holds
        <5> QED BY <1>1, <4>10, <4>12, <4>18, <5>1, <5>3, <5>4, <5>5, <5>6, <5>7 DEF EditorTyped, EditorAt
      <4>15. CASE ~r.complete
        <5>1. r.complete = FALSE
          BY <4>15 DEF EditorStates
        <5>2. /\ UNCHANGED lines
              /\ EditorNow' = [buffer |-> r.buffer, idx |-> r.idx, complete |-> FALSE, echo |-> r.echo]
          BY <1>1, <4>12, <4>15, <4>17 DEF EditorNow
        <5>3. EditorNow' = r
          BY <5>1, <5>2 DEF EditorStates
        <5>4. Len(after) = Len(lines) + 1 /\ \A i \in 1 .. Len(lines) : lines[i] = after[i]
          BY <4>11, <4>13, <4>15
        <5> QED BY <1>1, <2>12, <4>10, <4>12, <4>13, <4>15, <4>18, <5>2, <5>3, <5>4 DEF EditorTyped, EditorAt
      <4> QED BY <4>14, <4>15
    <3> QED BY <3>1, <3>2
  <2>14. TextSound(q, q)'
    BY <1>1, <2>6, <2>9, <2>10, <2>13 DEF TextSound
  <2> QED BY <2>7, <2>13, <2>14 DEF Flow
<1> QED BY <1>2, <1>3

LEMMA LInvNext ==
  ASSUME RInv, LInv, [Next]_metalVars
  PROVE  LInv'
<1>1. CASE Line
  <2>1. scenario = "line" /\ scenario' = "line" /\ LineNext
    BY <1>1 DEF Line
  <2>2. InputTyped /\ (Unspoilt => Flow)
    BY <2>1 DEF LInv
  <2>3. Unspoilt' => Unspoilt
    BY <2>1 DEF Unspoilt, LineNext, PressKey, PressBeyond, sys_keyboard_poll, Emit, EmitOther, CollectPulses, TakePulse,
       Edit, walia_pulse_emit, Claim, Deposit, Collect, Take, ringVars
  <2>4. InputTyped' /\ (Unspoilt /\ Unspoilt' /\ Flow => Flow')
    BY <2>1, <2>2, FlowPress, FlowBeyond, FlowPoll, FlowOther, FlowCollect, FlowTake, FlowEdit DEF LineNext
  <2> QED BY <2>1, <2>2, <2>3, <2>4 DEF LInv
<1>2. CASE Rings
  BY <1>2 DEF Rings, LInv, inputVars
<1>3. CASE UNCHANGED <<scenario, lineVars>>
  <2>1. UNCHANGED <<ringVars, inputVars>>
    BY <1>3 DEF lineVars
  <2>2. CASE scenario = "line"
    <3>1. UNCHANGED <<claims, taken, reader, isActive, overtaken>> /\ UNCHANGED <<step, port, shift_active, meant>>
          /\ UNCHANGED <<batch, input_buffer, buffer_idx, line_complete, echo>>
          /\ UNCHANGED <<lines, typed, held, behind, beyond>>
      BY <2>1 DEF ringVars, inputVars
    <3>2. InFlight' = InFlight /\ EditorNow' = EditorNow /\ Seen' = Seen
      BY <3>1 DEF InFlight, EditorNow, Seen
    <3>3. (InputTyped => InputTyped') /\ (EditorTyped => EditorTyped') /\ (Unspoilt' => Unspoilt)
      BY <3>1, <3>2 DEF InputTyped, EditorTyped, Unspoilt
    <3>4. BusSound => BusSound'
      BY <3>1, <3>2 DEF BusSound
    <3>5. \A q, d \in Nat : TextSound(q, d) => TextSound(q, d)'
      BY <3>1, <3>2 DEF TextSound, EditorAt
    <3> QED BY <1>3, <2>2, <3>3, <3>4, <3>5 DEF LInv, Flow
  <2>3. CASE scenario # "line"
    BY <1>3, <2>1, <2>3 DEF LInv, inputVars
  <2> QED BY <2>2, <2>3
<1>4. Next => Line \/ Rings \/ UNCHANGED <<scenario, lineVars>>
  BY DEF Next, OnConsole, Fold, Watch, Library, Drawings
<1>5. UNCHANGED metalVars => UNCHANGED <<scenario, lineVars>>
  BY DEF metalVars
<1> QED BY <1>1, <1>2, <1>3, <1>4, <1>5

\* For any scancodes, sizes of line, ring and screen, and any number of other senders: the
\* lines the shell's editor returns are those that were typed, and its screen has got what
\* was typed, key by key, erased characters included, unless the bus was flooded or a key
\* behind the map's end was pressed; and the console's screen shows the line that Enter will
\* execute (sys_shell_core.c:21-51, sys_keyboard_metal.c:52-80).
THEOREM MetalLineShown == Spec => []LineShown
<1>1. Init => LInv
  BY LInvInit DEF Init
<1>2. RInv /\ LInv /\ [Next]_metalVars => LInv'
  BY LInvNext
<1>3. LInv /\ ConsoleSound => LineShown
  BY LInvImplies, ConsoleSoundShows DEF LineShown
<1> QED BY <1>1, <1>2, <1>3, RInvAlways, ConsoleSoundAlways, PTL DEF Spec
=============================================================================
