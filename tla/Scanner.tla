------------------------------ MODULE Scanner ------------------------------
(***************************************************************************)
(* The scanner of src/core/scanner.c: one step is one call of scanToken,   *)
(* over a source text that is a sequence of characters. The constants say  *)
(* which characters belong to a class. Single-character tokens other than  *)
(* "." behave like Single; the two-character ones are the keys of Doubles. *)
(***************************************************************************)
EXTENDS Naturals, SequencesExt

CONSTANTS Sources,    \* the texts to scan
          Letters,    \* a..z, A..Z and _
          Digits,     \* 0..9
          Blanks,     \* ' ', '\r' and '\t'
          LineFeed,   \* '\n'
          Quote,      \* '"'
          Single,     \* characters that are a token by themselves
          Doubles,    \* per first character: the characters that may complete it
          Keywords,   \* words that checkKeyword compares as a whole
          ShortWords    \* words of two letters compared by these two letters only

VARIABLES source,   \* the text being scanned
          current,  \* how much of it is scanned
          line,     \* scanner.line
          token     \* the last token: its type, where it starts and ends, its line

scannerVars == <<source, current, line, token>>

NoToken == [type |-> "none", start |-> 1, end |-> 0, line |-> 1]

\* initScanner
ScannerInit == /\ source \in Sources
               /\ current = 0 /\ line = 1 /\ token = NoToken

-----------------------------------------------------------------------------
\* peek after the first n characters, "eof" at the end.
CharAt(n) == IF n < Len(source) THEN source[n + 1] ELSE "eof"

\* How far from n the characters stay in the set.
RunEnd(n, set) == CHOOSE m \in n .. Len(source) :
                    /\ \A i \in n + 1 .. m : source[i] \in set
                    /\ CharAt(m) \notin set

\* The first m from n on whose next character is c, or the end of the text.
Until(n, c) == CHOOSE m \in n .. Len(source) :
                 /\ \A i \in n + 1 .. m : source[i] # c
                 /\ CharAt(m) \in {c, "eof"}

LinesIn(from, to) == Cardinality({i \in from + 1 .. to : source[i] = LineFeed})

\* Comments run to the end of their line; a line feed belongs to the blanks.
skipWhitespace[n \in Nat] ==
  IF CharAt(n) \in Blanks \cup {LineFeed} THEN skipWhitespace[n + 1]
  ELSE IF CharAt(n) = "/" /\ CharAt(n + 1) = "/" THEN skipWhitespace[Until(n, LineFeed)]
  ELSE n

TextOf(from, to) == SubSeq(source, from + 1, to)

\* identifierType: `if' and `in' are recognised by their first two letters, whatever
\* follows them; the other keywords by their length and all their letters.
identifierType(text) ==
  CASE \E word \in ShortWords : IsPrefix(word, text) -> "prefix"
    [] text \in Keywords -> "keyword"
    [] OTHER -> "identifier"

MakeToken(type, end) == [type |-> type, end |-> end]

identifier(start) == LET end == RunEnd(start, Letters \cup Digits)
                     IN  MakeToken(identifierType(TextOf(start, end)), end)

\* A point belongs to a number only when a digit follows it.
number(start) == LET whole == RunEnd(start, Digits)
                     fraction == CharAt(whole) = "." /\ CharAt(whole + 1) \in Digits
                 IN  MakeToken("number", IF fraction THEN RunEnd(whole + 1, Digits) ELSE whole)

\* A string or a unit ends with its closing character; at the end of the text the
\* token is an error and everything is consumed.
Enclosed(type, start, closing) ==
  LET end == Until(start, closing)
  IN  IF end = Len(source) THEN MakeToken("error", end) ELSE MakeToken(type, end + 1)

\* A `<' next to a letter, a digit or a slash opens a dimensional unit.
OpensUnit(start) == /\ CharAt(start) = "<"
                    /\ CharAt(start + 1) \in (Letters \ {"_"}) \cup Digits \cup {"/"}

\* scanToken behind the blanks.
Scanned(start) ==
  LET c == CharAt(start)
  IN  CASE c = "eof" -> MakeToken("eof", start)
        [] OpensUnit(start) -> Enclosed("unit", start + 1, ">")
        [] c \in Letters -> identifier(start)
        [] c \in Digits -> number(start)
        [] c = Quote -> Enclosed("string", start + 1, Quote)
        [] c \in DOMAIN Doubles /\ ~OpensUnit(start) ->
             MakeToken("symbol", IF CharAt(start + 1) \in Doubles[c] THEN start + 2 ELSE start + 1)
        [] c \in Single -> MakeToken("symbol", start + 1)
        [] OTHER -> MakeToken("error", start + 1)

scanToken ==
  LET start == skipWhitespace[current]
      scanned == Scanned(start)
      lineAfter == line + LinesIn(current, scanned.end)
  IN  /\ token.type # "eof"
      /\ current' = scanned.end /\ line' = lineAfter
      /\ token' = [type |-> scanned.type, start |-> start + 1, end |-> scanned.end,
                   line |-> lineAfter]
      /\ UNCHANGED source

ScannerNext == scanToken

-----------------------------------------------------------------------------
\* What the texts of each type of token are, said without the scanner.
Word(text) == /\ text # <<>> /\ text[1] \in Letters
              /\ \A i \in DOMAIN text : text[i] \in Letters \cup Digits
Numeral(text) == /\ text # <<>> /\ text[1] \in Digits /\ text[Len(text)] \in Digits
                 /\ \A i \in DOMAIN text : text[i] \in Digits \cup {"."}
                 /\ Cardinality({i \in DOMAIN text : text[i] = "."}) <= 1
Delimited(text, opening, closing) == /\ Len(text) >= 2 /\ text[1] = opening
                                     /\ \A i \in 2 .. Len(text) : text[i] = closing <=> i = Len(text)
Unit(text) == Delimited(text, "<", ">") /\ text[2] \in (Letters \ {"_"}) \cup Digits \cup {"/"}
Symbol(text) == \/ Len(text) = 1 /\ text[1] \in Single \cup DOMAIN Doubles
                \/ /\ Len(text) = 2 /\ text[1] \in DOMAIN Doubles
                   /\ text[2] \in Doubles[text[1]]
Lexeme(text) == Word(text) \/ Numeral(text) \/ Delimited(text, Quote, Quote) \/ Unit(text)
                  \/ Symbol(text)

\* Every token but an error is the longest lexeme at its place, its type is that of
\* its text (a keyword only for a keyword, apart from the words that begin like one
\* of ShortWords), and its line is the number of line feeds up to its end.
TokensExact ==
  LET text == TextOf(token.start - 1, token.end)
  IN  token.type \notin {"none", "eof"} =>
        /\ token.line = 1 + LinesIn(0, token.end)
        /\ token.type # "error" =>
             /\ Lexeme(text)
             /\ \A longer \in token.end + 1 .. Len(source) : ~Lexeme(TextOf(token.start - 1, longer))
             /\ token.type = "keyword" => text \in Keywords
             /\ token.type = "prefix" => \E word \in ShortWords : IsPrefix(word, text)
             /\ text \in Keywords \cup ShortWords => token.type \in {"keyword", "prefix"}
=============================================================================
