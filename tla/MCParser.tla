------------------------------ MODULE MCParser ------------------------------
(***************************************************************************)
(* The texts that are parsed: those of a bounded grammar, and each of them *)
(* with one token left out, replaced or put in, and cut off at any place;  *)
(* and all texts of up to three tokens.                                    *)
(***************************************************************************)
EXTENDS Parser

MCNames == {"x", "u8"}

Atoms == {<<"x">>, <<"1">>}
Postfix == {<<"x", "(", ")">>, <<"x", "(", "1", ",", "x", ")">>, <<"x", "[", "1", "]", "(", "x", ")">>,
            <<"x", "[", "1", ":", "x", "]">>, <<"x", "[", ":", "1", ":", "x", ",", "1", "]">>,
            <<"x", "[", ":", ":", "1", "]">>}
Prefix == {<<op, "x">> : op \in {"-", "&"}}
Grouped == {<<"(", "x", "=", "1", ")">>, <<"(", "x", "or", "1", ")">>}
Other == {<<"perform", "str">>,
          <<"match", "x", "{", "1", "if", "x", "=>", "x", ";", ",", "_", "=>", "{", "}", "}">>,
          <<"match", "1", "{", "~", "x", "=>", "print", "1", ";", "}">>}
Operators == {"-", "<", "and", "or"}

Chains ==
    {<<"x", o1, "1", o2, "x", o3, "1">> : o1 \in Operators, o2 \in Operators, o3 \in Operators}
Assignments == {<<"x", "=", "x", "~=", "1", "-", "1">>}

Exprs == Atoms \union Postfix \union Prefix \union Grouped \union Other \union Assignments
Prints == <<"print", "x", ";">>

Simple ==
    {e \o <<";">> : e \in Exprs}
    \union {<<"var", "x">> \o t \o i \o <<";">> :
                t \in {<<>>, <<":", "u8">>, <<":", "<m>">>}, i \in {<<>>, <<"=", "1">>}}
Compound ==
    {<<"if", "(", "x", ")">> \o Prints,
     <<"if", "(", "x", ")", "if", "(", "1", ")">> \o Prints \o <<"else", "x", ";">>,
     <<"if", "(", "1", ")", "{", "}", "else">> \o Prints,
     <<"for", "var", "x", "in", "x", "{">> \o Prints \o <<"}">>,
     <<"fun", "x", "(", ")", "{", "fun", "x", "(", ")", "{", "}">> \o Prints \o <<"}">>,
     <<"{", "x", ";", "{", "}">> \o Prints \o <<"}">>,
     <<"class", "x", "{", "}">>,
     <<"class", "x", "<", "x", "{", "}">>,
     <<"@", "x", "(", "str", ")", "@", "x", "var", "x", ";">>,
     <<"gene", "x", "{", "var", "x", ":", "x", ";", "}">>}

Sentences == Simple \union Compound

MCGrammar ==
    Sentences \union {s \o t : s \in Sentences, t \in Compound}
    \union {<<"{">> \o c \o <<";", "}">> : c \in Chains}

Tokens == {"x", "1", "str", "<m>", "u8", "(", ")", "[", "]", "{", "}", ";", ",", ":", "-", "=",
           "and", "~", "if", "else", "for", "var", "fun", "print", "class", "gene", "in", "=>",
           "@", "_", Bad}

Without(s) == {RemoveAt(s, i) : i \in DOMAIN s}
Changed(s) == {[s EXCEPT ![i] = tok] : i \in DOMAIN s, tok \in Tokens}
Grown(s) == {InsertAt(s, i, tok) : i \in DOMAIN s, tok \in Tokens}

\* Methods, and a gene's, with the braces that the code asks for.
WithMethods ==
    {<<"class", "x", "{", "fun", "x", "(", ")">> \o Prints \o <<"}", "}">>,
     <<"gene", "x", "{", "fun", "x", "(", ")", "x", ";", "}", "}">>}

Variants(s) == Without(s) \union Changed(s) \union Grown(s)

MCTexts ==
    {t : t \in MCGrammar
           \union UNION {Variants(s) : s \in Sentences \union WithMethods}
           \union UNION {Prefixes(s) : s \in Sentences}
           \union BoundedSeq(Tokens, 3)}
=============================================================================
