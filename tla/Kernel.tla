------------------------------- MODULE Kernel -------------------------------
(***************************************************************************)
(* The library of the kernel (waliaos/lib/sys_lib_metal.c) and the second   *)
(* one the freestanding build links (src/lib/lib_kernel_base.c): copying in *)
(* memory, the tokenizer that keeps its place in a static variable, the     *)
(* conversions of numbers and the comparisons of strings. A string is a     *)
(* sequence of characters; 0 ends it in memory.                            *)
(***************************************************************************)
EXTENDS Integers, Sequences, FiniteSets, FiniteSetsExt, SequencesExt

CONSTANTS Words,       \* bytes of a 64-bit word (8)
          Memory,      \* bound: the bytes of the memory the copies work in
          Strings,     \* bound: what is tokenized and compared
          Delimiters,  \* the set of characters delim names
          Numbers,     \* bound: what is converted
          IntMax,      \* INT_MAX
          Bases,       \* bound: the bases asked for
          MaxTokenCalls \* bound: calls of the tokenizer

ASSUME KernelAssumption == Words \in Nat \ {0} /\ Memory \in Nat /\ IntMax \in Nat

VARIABLES memory,                       \* the bytes of the copies
          copied,                       \* the last copy and the memory before it (history)
          text, last_strtok, tokensMet, \* the buffer, the static pointer, what was returned (history)
          given,                        \* the string the buffer held at first (history)
          asked                         \* the last conversion or comparison and its answers

kernelVars == <<memory, copied, text, last_strtok, tokensMet, given, asked>>

Null == 0
Garbage == 256          \* a byte read before the table of digits
None == [kind |-> "none"]
IntMin == -IntMax - 1

KernelInit == /\ memory = [i \in 1 .. Memory |-> i] /\ copied = None
              /\ text = <<0>> /\ last_strtok = Null /\ tokensMet = <<>> /\ given = <<>>
              /\ asked = None

-----------------------------------------------------------------------------
\* The pieces a copy of n bytes moves, each as its first byte and its length:
\* whole words first, the rest byte by byte.
Chunks(n) == LET whole == n \div Words
             IN  [i \in 1 .. whole |-> <<(i - 1) * Words, Words>>]
                   \o [i \in 1 .. n % Words |-> <<whole * Words + i - 1, 1>>]

MovedChunk(m, dest, src, chunk) ==
  [a \in DOMAIN m |-> IF a - dest \in chunk[1] .. chunk[1] + chunk[2] - 1
                      THEN m[src + (a - dest)] ELSE m[a]]

Copies(m, dest, src, n) ==
  FoldLeft(LAMBDA acc, chunk : MovedChunk(acc, dest, src, chunk), m, Chunks(n))

\* k_memcpy of the kernel
k_memcpy(dest, src, n) ==
  /\ dest + n - 1 \in 1 .. Memory /\ src + n - 1 \in 1 .. Memory
  /\ copied = None
  /\ memory' = Copies(memory, dest, src, n)
  /\ copied' = [kind |-> "copy", dest |-> dest, src |-> src, n |-> n, before |-> memory]
  /\ UNCHANGED <<text, last_strtok, tokensMet, given, asked>>

\* k_memset: a zero is stored by words, any other byte one at a time
k_memset(ptr, value, n) ==
  /\ ptr + n - 1 \in 1 .. Memory
  /\ copied = None
  /\ memory' = [a \in DOMAIN memory |-> IF a \in ptr .. ptr + n - 1 THEN value ELSE memory[a]]
  /\ copied' = None
  /\ UNCHANGED <<text, last_strtok, tokensMet, given, asked>>

\* k_strlen, and k_strdup: as many bytes as the string and its end, into memory that
\* is its own.
StringLength(m, s) == Min({i \in s .. Memory : m[i] = 0}) - s
k_strdup(src, dest) ==
  /\ \E i \in src .. Memory : memory[i] = 0
  /\ LET n == StringLength(memory, src) + 1
     IN  (dest > src + n - 1 \/ dest + n - 1 < src) /\ k_memcpy(dest, src, n)

\* Bytes that are not copied over while the copy runs arrive as they were, and no
\* other byte changes: a destination inside the source is the one case apart.
CopiesExact ==
  copied # None /\ ~(copied.dest \in copied.src + 1 .. copied.src + copied.n - 1) =>
    \A a \in 1 .. Memory :
      memory[a] = IF a \in copied.dest .. copied.dest + copied.n - 1
                  THEN copied.before[copied.src + (a - copied.dest)] ELSE copied.before[a]

-----------------------------------------------------------------------------
\* The first place from i on where a character is (or is not) a delimiter, or where
\* the text ends.
FirstPlace(s, i, delimiter) ==
  Min({j \in i .. Len(s) : s[j] = 0 \/ (s[j] \in Delimiters) = delimiter})

\* mutant: the pointer stays at the end of the token
TokenAtEnd(buffer, str) ==
  LET from  == IF str # Null THEN str ELSE last_strtok
      begin == FirstPlace(buffer, from, FALSE)
      end   == FirstPlace(buffer, begin, TRUE)
  IN  IF from = Null THEN [token |-> Null, text |-> buffer, last |-> Null]
      ELSE IF buffer[begin] = 0 THEN [token |-> Null, text |-> buffer, last |-> begin]
      ELSE IF buffer[end] = 0 THEN [token |-> begin, text |-> buffer, last |-> Null]
      ELSE [token |-> begin, text |-> [buffer EXCEPT ![end] = 0], last |-> end]

\* k_strtok: delimiters are skipped from str, or from where the last call stopped;
\* the one behind the token is overwritten by an end. The token that reaches the end
\* of the text clears the pointer.
k_strtok(buffer, str) ==
  LET from  == IF str # Null THEN str ELSE last_strtok
      begin == FirstPlace(buffer, from, FALSE)
      end   == FirstPlace(buffer, begin, TRUE)
  IN  IF from = Null THEN [token |-> Null, text |-> buffer, last |-> Null]
      ELSE IF buffer[begin] = 0 THEN [token |-> Null, text |-> buffer, last |-> begin]
      ELSE IF buffer[end] = 0 THEN [token |-> begin, text |-> buffer, last |-> Null]
      ELSE [token |-> begin, text |-> [buffer EXCEPT ![end] = 0], last |-> end + 1]

Tokenize(met, got) == /\ text' = got.text /\ last_strtok' = got.last
                      /\ tokensMet' = Append(met, got.token)
                      /\ UNCHANGED <<memory, copied, asked>>

\* A loop over the tokens of a string begins. A loop that was still running is given
\* up: the callers (sys_units_registry.c:69-99, sys_assembler.c:69-81) run one at a time.
FirstToken(s) == given' = s /\ Tokenize(<<>>, k_strtok(Append(s, 0), 1))
NextToken == /\ Len(tokensMet) < MaxTokenCalls
             /\ Tokenize(tokensMet, k_strtok(text, Null)) /\ UNCHANGED given

\* The string a pointer shows now.
TokenAt(p) == SubSeq(text, p, Min({j \in p .. Len(text) : text[j] = 0}) - 1)

\* What the callers take the loop for: the tokens, in their order, are the longest
\* pieces of the string that hold no delimiter, each of them still ended in place,
\* and once there is none left every further call says so.
Starts == {i \in DOMAIN given : given[i] \notin Delimiters
                                 /\ (i > 1 => given[i - 1] \in Delimiters)}
EndOf(i) == Max({j \in i .. Len(given) : \A k \in i .. j : given[k] \notin Delimiters})
TokensInOrder ==
  \A n \in DOMAIN tokensMet :
    IF n > Cardinality(Starts) THEN tokensMet[n] = Null
    ELSE /\ tokensMet[n] \in Starts
         /\ Cardinality({i \in Starts : i < tokensMet[n]}) = n - 1
         /\ TokenAt(tokensMet[n]) = SubSeq(given, tokensMet[n], EndOf(tokensMet[n]))

-----------------------------------------------------------------------------
\* Division and remainder in C go towards zero.
Quotient(v, base) == IF v >= 0 THEN v \div base ELSE -((-v) \div base)
Remainder(v, base) == v - base * Quotient(v, base)
\* INT_MIN is its own negation.
Negated(v) == IF v = IntMin THEN IntMin ELSE -v

\* The digits of a number, the most significant first: the loop produces them from
\* the other end and the string is turned round.
DigitsOf(v, base, DigitOf(_)) ==
  LET D[n \in Int] == IF n = 0 THEN <<>>
                      ELSE Append(D[Quotient(n, base)], DigitOf(Remainder(n, base)))
  IN  D[v]

\* k_itoa of the kernel: the sign is written but not taken away, and the table of digits
\* is read at a remainder that is negative, before its first byte.
TableDigit(r) == IF r < 0 THEN Garbage ELSE IF r > 9 THEN r - 10 + 97 ELSE r + 48
KernelItoa(v, base) ==
  IF base < 2 \/ base > 36 THEN <<>>
  ELSE (IF v < 0 /\ base = 10 THEN <<45>> ELSE <<>>)
         \o (IF v = 0 THEN <<TableDigit(0)>> ELSE DigitsOf(v, base, TableDigit))

\* k_itoa of the freestanding build: the sign is taken away first, which INT_MIN keeps.
BaseItoa(v, base) ==
  LET value == IF v < 0 /\ base = 10 THEN Negated(v) ELSE v
  IN  IF v = 0 THEN <<48>>
      ELSE (IF v < 0 /\ base = 10 THEN <<45>> ELSE <<>>)
             \o DigitsOf(value, base, LAMBDA r : IF r > 9 THEN (r - 10) + 97 ELSE r + 48)

\* k_atoi: the leading digits; a sign is none of them.
k_atoi(s) ==
  LET digits == Min({i \in 1 .. Len(s) + 1 : i > Len(s) \/ s[i] \notin 48 .. 57}) - 1
  IN  FoldLeft(LAMBDA res, c : res * 10 + (c - 48), 0, SubSeq(s, 1, digits))

Convert(v, base) ==
  /\ asked = None
  /\ asked' = [kind |-> "number", value |-> v, base |-> base,
               kernel |-> KernelItoa(v, base), other |-> BaseItoa(v, base)]
  /\ UNCHANGED <<memory, copied, text, last_strtok, tokensMet, given>>

Digit(d) == IF d > 9 THEN (d - 10) + 97 ELSE d + 48

\* The characters are those of the magnitude's digits, as many as it has, each written as
\* as(d) says; before them the sign of a negative decimal.
WrittenAs(chars, v, base, as(_)) ==
  LET magnitude == IF v < 0 THEN -v ELSE v
      sign      == IF v < 0 /\ base = 10 THEN 1 ELSE 0
      n         == Len(chars) - sign
  IN  /\ sign = 1 => Head(chars) = 45
      /\ n >= 1 /\ magnitude < base ^ n /\ (n > 1 => base ^ (n - 1) <= magnitude)
      /\ \A i \in 1 .. n : chars[sign + i] = as((magnitude \div base ^ (n - i)) % base)

\* What a number is turned into, in every base and down to INT_MIN. What is not negative
\* is written alike by both conversions, and a decimal reads back. Of a negative number
\* the kernel's conversion (sys_lib_metal.c:138-145) writes the sign, a zero where the
\* digit is one, and for every other digit whatever byte stands before the table. The
\* freestanding one (lib_kernel_base.c:56-63) is right about a decimal that has a
\* magnitude; in other bases, and for INT_MIN, its digits are counted down from "0".
NumbersReadBack ==
  asked.kind = "number" =>
    LET v     == asked.value
        base  == asked.base
        signs == v < 0 /\ (base # 10 \/ v = IntMin)
    IN  /\ IF base \notin 2 .. 36 THEN asked.kernel = <<>>
           ELSE WrittenAs(asked.kernel, v, base,
                          LAMBDA d : IF v < 0 /\ d # 0 THEN Garbage ELSE Digit(d))
        /\ WrittenAs(asked.other, v, base, LAMBDA d : IF signs THEN 48 - d ELSE Digit(d))
        /\ v >= 0 /\ base = 10 => k_atoi(asked.kernel) = v

-----------------------------------------------------------------------------
CharAt(s, i) == IF i <= Len(s) THEN s[i] ELSE 0

\* k_strcmp, k_strncmp and k_memcmp: the difference of the first characters that differ.
k_strcmp(s, t) ==
  LET i == Min({j \in 1 .. Len(s) + 1 : CharAt(s, j) = 0 \/ CharAt(s, j) # CharAt(t, j)})
  IN  CharAt(s, i) - CharAt(t, i)
k_strncmp(s, t, n) ==
  LET i == Min({j \in 1 .. Len(s) + 1 : j = n + 1 \/ CharAt(s, j) = 0 \/ CharAt(s, j) # CharAt(t, j)}
                 \cup {n + 1})
  IN  IF i = n + 1 THEN 0 ELSE CharAt(s, i) - CharAt(t, i)
k_memcmp(s, t, n) ==
  LET differ == {j \in 1 .. n : s[j] # t[j]}
  IN  IF differ = {} THEN 0 ELSE s[Min(differ)] - t[Min(differ)]

\* k_strchr: where a character stands first, the end of the string for its end
k_strchr(s, c) == LET at == {i \in 1 .. Len(s) + 1 : CharAt(s, i) = c}
                  IN  IF at = {} THEN Null ELSE Min(at)

Compare(s, t, n) ==
  /\ asked = None
  /\ asked' = [kind |-> "strings", s |-> s, t |-> t, n |-> n, whole |-> k_strcmp(s, t),
               back |-> k_strcmp(t, s), part |-> k_strncmp(s, t, n),
               bytes |-> k_memcmp(Append(s, 0), Append(t, 0), Min({Len(s), Len(t)}) + 1),
               ends |-> <<k_strchr(s, 0), k_strchr(t, 0)>>]
  /\ UNCHANGED <<memory, copied, text, last_strtok, tokensMet, given>>

Upto(s, n) == SubSeq(s, 1, Min({n, Len(s)}))

\* The comparisons are one order: exchanging the strings turns the sign, n characters
\* compare as the strings cut at n do, and the bytes of the shorter string with its
\* end decide as the whole strings do.
ComparisonsAgree ==
  asked.kind = "strings" =>
    /\ asked.whole = -asked.back
    /\ asked.whole = 0 <=> asked.s = asked.t
    /\ asked.part = k_strcmp(Upto(asked.s, asked.n), Upto(asked.t, asked.n))
    /\ asked.bytes = asked.whole
    /\ asked.ends = <<Len(asked.s) + 1, Len(asked.t) + 1>>

CopyNext ==
  \/ \E dest, src \in 1 .. Memory, n \in 0 .. Memory : k_memcpy(dest, src, n)
  \/ \E ptr \in 1 .. Memory, n \in 0 .. Memory : k_memset(ptr, 0, n)
  \/ \E src, dest \in 1 .. Memory : k_strdup(src, dest)
TokenNext == (\E s \in Strings : FirstToken(s)) \/ NextToken
AskNext ==
  \/ \E v \in Numbers, base \in Bases : Convert(v, base)
  \/ \E s, t \in Strings, n \in 0 .. 3 : Compare(s, t, n)

\* The library does what its callers take it for: copies, tokens, numbers and
\* comparisons (each stated above).
KernelExact == CopiesExact /\ TokensInOrder /\ NumbersReadBack /\ ComparisonsAgree
=============================================================================
