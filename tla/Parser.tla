------------------------------- MODULE Parser -------------------------------
(***************************************************************************)
(* The recursive-descent parser, src/core/parser.c, with the constructors  *)
(* of src/core/ast.c and the decorators of src/db/db_sentry_parser.c.      *)
(*                                                                         *)
(* Every function of the parser is an operator from a parser state to a    *)
(* parser state whose field "node" is what the function returns.  Two      *)
(* things end a parse before the text does, and both stay in "end": a      *)
(* constructor that reads the line of a missing node crashes the program,  *)
(* and a loop whose body consumes nothing repeats for ever.  Functions do  *)
(* nothing in such a state.                                                *)
(*                                                                         *)
(* A text is a sequence of tokens.  scanToken has no keyword for async,    *)
(* with, layout, union, asm, release, alloc, sizeof and syscall, so that   *)
(* no text reaches the branches for them; they are left out.               *)
(***************************************************************************)
EXTENDS Integers, Sequences, FiniteSetsExt, SequencesExt

CONSTANTS
    Texts,        \* the texts that are parsed
    Names,        \* the identifiers that occur in them, "_" apart
    SysTypes,     \* those of them that sys_resolve_type_name knows
    Units,        \* <m>, ...
    Values,       \* numbers, true, false and nil
    Strings,      \* string literals
    MaxArguments  \* the most arguments of a call (255)

ASSUME Alphabet == SysTypes \subseteq Names /\ MaxArguments \in Nat

VARIABLES
    text,  \* the tokens of the source
    p,     \* the parser: position of the current token, previous token,
           \* panicMode and hadError (set together), how it ended, last node
    out    \* the statements

vars == <<text, p, out>>

EOF == "end of text"
Bad == "#"    \* what scanToken answers with TOKEN_ERROR
Identifiers == Names \union {"_"}

Node(kind, tok, kids) == [kind |-> kind, tok |-> tok, kids |-> kids]
NULL == Node("NULL", "", <<>>)
Leaf(kind, tok) == Node(kind, tok, <<>>)
List(kids) == Node("list", "", kids)

-----------------------------------------------------------------------------
(* Navigation and errors. *)

Current(s) == IF s.at \in DOMAIN text THEN text[s.at] ELSE EOF
Halted(s) == s.end # "reading"
Returns(s, node) == [s EXCEPT !.node = node]
Halts(s, how) == [s EXCEPT !.end = IF Halted(s) THEN @ ELSE how]

\* The constructors that copy the line of a child.
Copies(s, child, node) ==
    IF child = NULL THEN Halts(s, "crashed") ELSE Returns(s, node)

\* panicMode is never reset: the first error is the last one reported.
errorAt(s) == [s EXCEPT !.err = @ \/ ~Halted(s)]

advance(s) ==
    LET good == {i \in (s.at + 1)..Len(text) : text[i] # Bad}
        next == IF good = {} THEN Len(text) + 1 ELSE Min(good)
    IN  [s EXCEPT !.prev = Current(s), !.at = next,
                  !.err = @ \/ \E i \in (s.at + 1)..(next - 1) : text[i] = Bad]

check(s, kinds) == ~Halted(s) /\ Current(s) \in kinds
isAtEnd(s) == Current(s) = EOF
consume(s, kinds) == IF check(s, kinds) THEN advance(s) ELSE errorAt(s)

\* while (!check(TOKEN_RIGHT_BRACE) && !isAtEnd())
More(s) == ~check(s, {"}"}) /\ ~isAtEnd(s) /\ ~Halted(s)

\* One iteration of such a loop has led from s to t.
Iterated(s, t) == IF t.at = s.at THEN Halts(t, "looping") ELSE t

-----------------------------------------------------------------------------
RECURSIVE Parse(_, _), Operand(_, _), Chain(_, _), CallChain(_), Arguments(_, _),
          Dimensions(_, _), Cases(_, _), Statements(_, _), Methods(_, _),
          Members(_, _, _), Decorators(_)

\* The functions that call each other in a circle; Parse knows their bodies.
declaration(s) == Parse("declaration", s)
statement(s) == Parse("statement", s)
expression(s) == Parse("expression", s)
unary(s) == Parse("unary", s)

-----------------------------------------------------------------------------
(* Blocks. *)

Statements(s, stmts) ==
    IF ~More(s) THEN Returns(s, List(stmts))
    ELSE LET d == Iterated(s, declaration(s))
         IN  Statements(d, Append(stmts, d.node))

block(s) ==
    LET b == Statements(s, <<>>)
    IN  Returns(consume(b, {"}"}), Node("block", "", b.node.kids))

-----------------------------------------------------------------------------
(* Expressions. *)

pattern(s) ==
    CASE check(s, {"~"}) -> expression(advance(s))
      [] check(s, {"_"}) -> Returns(advance(s), NULL)
      \* match(TOKEN_IDENTIFIER) has consumed the name before it is compared
      [] check(s, Names) -> expression(advance(s))
      [] OTHER -> expression(s)

Cases(s, cases) ==
    IF ~More(s) THEN Returns(s, List(cases))
    ELSE LET pat == pattern(s)
             guard == IF check(pat, {"if"}) THEN expression(advance(pat))
                      ELSE Returns(pat, NULL)
             body == statement(consume(guard, {"=>"}))
             all == Append(cases, Node("case", "", <<pat.node, guard.node, body.node>>))
         IN  IF check(body, {","}) THEN Cases(advance(body), all)
             ELSE Returns(body, List(all))

matchExpression(s) ==
    LET target == expression(s)
        cases == Cases(consume(target, {"{"}), <<>>)
    IN  Copies(consume(cases, {"}"}), target.node,
               Node("match", "", <<target.node>> \o cases.node.kids))

grouping(s) ==
    LET e == expression(s)
    IN  Copies(consume(e, {")"}), e.node, Node("grouping", "", <<e.node>>))

perform(s) ==
    LET name == consume(s, Strings)
    IN  Returns(name, Leaf("perform", name.prev))

\* mutant: a missing expression is not reported
primarySilent(s) ==
    CASE check(s, Values \union Strings) -> Returns(advance(s), Leaf("literal", Current(s)))
      [] check(s, Identifiers) -> Returns(advance(s), Leaf("variable", Current(s)))
      [] check(s, {"match"}) -> matchExpression(advance(s))
      [] check(s, {"perform"}) -> perform(advance(s))
      [] check(s, {"("}) -> grouping(advance(s))
      [] OTHER -> Returns(s, NULL)
primary(s) ==
    CASE check(s, Values \union Strings) -> Returns(advance(s), Leaf("literal", Current(s)))
      [] check(s, Identifiers) -> Returns(advance(s), Leaf("variable", Current(s)))
      [] check(s, {"match"}) -> matchExpression(advance(s))
      [] check(s, {"perform"}) -> perform(advance(s))
      [] check(s, {"("}) -> grouping(advance(s))
      [] OTHER -> Returns(errorAt(s), NULL)

Arguments(s, args) ==
    LET e == expression(IF Len(args) >= MaxArguments THEN errorAt(s) ELSE s)
        all == Append(args, e.node)
    IN  IF check(e, {","}) THEN Arguments(advance(e), all) ELSE Returns(e, List(all))

finishCall(s, callee) ==
    LET args == IF check(s, {")"}) THEN Returns(s, List(<<>>)) ELSE Arguments(s, <<>>)
    IN  Returns(consume(args, {")"}),
                Node("call", Current(args), <<callee>> \o args.node.kids))

Optional(s, stops) == IF check(s, stops) THEN Returns(s, NULL) ELSE expression(s)

parseSliceDimension(s) ==
    LET start == Optional(s, {":", ",", "]"})
        end == IF check(start, {":"}) THEN Optional(advance(start), {":", ",", "]"})
               ELSE Returns(start, NULL)
        step == IF check(end, {":"}) THEN Optional(advance(end), {",", "]"})
                ELSE Returns(end, NULL)
    IN  Returns(step, Node("dimension", "", <<start.node, end.node, step.node>>))

Dimensions(s, dims) ==
    LET d == parseSliceDimension(s)
        all == Append(dims, d.node)
    IN  IF check(d, {","}) THEN Dimensions(advance(d), all) ELSE Returns(d, List(all))

\* A dimension tells that a colon was there by the expressions around it.
isActuallySlice(dim) == dim.kids[1] = NULL \/ dim.kids[2] # NULL \/ dim.kids[3] # NULL

finishIndex(s, callee) ==
    LET d == Dimensions(s, <<>>)
        dims == d.node.kids
        after == consume(d, {"]"})
    IN  IF Len(dims) > 1 \/ isActuallySlice(dims[1])
        THEN Copies(after, callee, Node("slice", "", <<callee>> \o dims))
        ELSE Returns(after, Node("call", "[", <<callee, dims[1].kids[1]>>))

CallChain(s) ==
    CASE check(s, {"("}) -> CallChain(finishCall(advance(s), s.node))
      [] check(s, {"["}) -> CallChain(finishIndex(advance(s), s.node))
      [] OTHER -> s
call(s) == CallChain(primary(s))

unaryBody(s) ==
    IF check(s, {"!", "-", "&", "*"})
    THEN LET e == unary(advance(s))
             node == Node("unary", Current(s), <<e.node>>)
         IN  IF Current(s) \in {"&", "*"} THEN Copies(e, e.node, node)
             ELSE Returns(e, node)
    ELSE call(s)

\* The three left-associative levels: binary(), andLogic(), orLogic().
Levels == <<[ops |-> {"*", "/", "+", "-", ">", "<", "=="}, kind |-> "binary"],
            [ops |-> {"and"}, kind |-> "logical"],
            [ops |-> {"or"}, kind |-> "logical"]>>

Operand(s, level) ==
    IF level = 0 THEN unary(s) ELSE Chain(Operand(s, level - 1), level)

Chain(s, level) ==
    IF ~check(s, Levels[level].ops) THEN s
    ELSE LET right == Operand(advance(s), level - 1)
             node == Node(Levels[level].kind, Current(s), <<s.node, right.node>>)
         IN  Chain(Returns(right, node), level)

orLogic(s) == Operand(s, 3)

\* mutant: an invalid target is passed over
AssignedAnyway(s, op, kind) ==
    IF ~check(s, {op}) THEN s
    ELSE LET value == expression(advance(s))
         IN  CASE s.node = NULL -> Halts(value, "crashed")
               [] s.node.kind = "variable" -> Returns(value, Node(kind, s.node.tok, <<value.node>>))
               [] OTHER -> Returns(value, s.node)
\* "=" or "~=" after the target in s.node.
Assigned(s, op, kind) ==
    IF ~check(s, {op}) THEN s
    ELSE LET value == expression(advance(s))
         IN  CASE s.node = NULL -> Halts(value, "crashed")
               [] s.node.kind = "variable" -> Returns(value, Node(kind, s.node.tok, <<value.node>>))
               [] OTHER -> Returns(errorAt(value), s.node)

expressionBody(s) ==
    LET e == Assigned(orLogic(s), "=", "assign")
    IN  IF e.node.kind = "assign" THEN e ELSE Assigned(e, "~=", "entangle")

-----------------------------------------------------------------------------
(* Statements. *)

ifStatement(s) ==
    LET c == expression(consume(s, {"("}))
        t == statement(consume(c, {")"}))
        e == IF check(t, {"else"}) THEN statement(advance(t)) ELSE Returns(t, NULL)
    IN  Copies(e, c.node, Node("if", "", <<c.node, t.node, e.node>>))

\* The loop's variable gets lost: newWhileStmt takes the source and the body.
forStatement(s) ==
    LET name == consume(consume(s, {"var"}), Identifiers)
        source == expression(consume(name, {"in"}))
        body == block(consume(source, {"{"}))
    IN  Copies(body, source.node, Node("while", "", <<source.node, body.node>>))

Terminated(s, kind) == Copies(consume(s, {";"}), s.node, Node(kind, "", <<s.node>>))

statementBody(s) ==
    CASE check(s, {"if"}) -> ifStatement(advance(s))
      [] check(s, {"for"}) -> forStatement(advance(s))
      [] check(s, {"print"}) -> Terminated(expression(advance(s)), "print")
      [] check(s, {"{"}) -> block(advance(s))
      [] OTHER -> Terminated(expression(s), "expression")

-----------------------------------------------------------------------------
(* Declarations.  Where the code takes parser.current for a name, any token *)
(* is one.                                                                  *)

TypeNode(s) ==
    CASE check(s, Units) -> Returns(advance(s), Leaf("unit", Current(s)))
      [] check(s, SysTypes) -> Returns(advance(s), Leaf("type", Current(s)))
      [] check(s, Identifiers \ SysTypes) -> Returns(advance(s), NULL)
      [] OTHER -> Returns(s, NULL)

varDeclaration(s) ==
    LET named == advance(s)
        type == IF check(named, {":"}) THEN TypeNode(advance(named)) ELSE Returns(named, NULL)
        init == IF check(type, {"="}) THEN expression(advance(type)) ELSE Returns(type, NULL)
    IN  Returns(consume(init, {";"}), Node("var", Current(s), <<type.node, init.node>>))

funDeclaration(s) ==
    LET b == block(consume(consume(consume(advance(s), {"("}), {")"}), {"{"}))
    IN  Returns(b, Node("function", Current(s), <<b.node>>))

\* The body of a method is parsed by block() from its opening brace on.
method(s) ==
    LET b == block(consume(consume(advance(s), {"("}), {")"}))
    IN  Returns(b, Node("method", Current(s), <<b.node>>))

Methods(s, methods) ==
    IF ~More(s) THEN Returns(s, List(methods))
    ELSE LET m == method(consume(s, {"fun"}))
         IN  Methods(m, Append(methods, m.node))

classDeclaration(s) ==
    LET named == consume(s, Identifiers)
        super == IF check(named, {"<"})
                 THEN LET c == consume(advance(named), Identifiers)
                      IN  Returns(c, Leaf("variable", c.prev))
                 ELSE Returns(named, NULL)
        body == Methods(consume(super, {"{"}), <<>>)
    IN  Returns(consume(body, {"}"}),
                Node("class", named.prev, <<super.node>> \o body.node.kids))

trait(s) ==
    LET e == expression(consume(advance(s), {":"}))
    IN  Returns(consume(e, {";"}), Node("var", Current(s), <<NULL, e.node>>))

\* A member that starts with neither word is never consumed.
Members(s, traits, methods) ==
    CASE ~More(s) -> Returns(s, List(<<List(methods), List(traits)>>))
      [] check(s, {"var"}) ->
             LET t == trait(advance(s)) IN Members(t, Append(traits, t.node), methods)
      [] check(s, {"fun"}) ->
             LET m == method(advance(s)) IN Members(m, traits, Append(methods, m.node))
      [] OTHER -> Iterated(s, s)

geneDeclaration(s) ==
    LET named == consume(s, Identifiers)
        body == Members(consume(named, {"{"}), <<>>, <<>>)
    IN  Returns(consume(body, {"}"}), Node("gene", named.prev, body.node.kids))

parseDecorator(s) ==
    LET named == consume(advance(s), Identifiers)
        inside == advance(named)
        last == IF check(inside, Strings) THEN advance(inside) ELSE inside
    IN  CASE ~check(advance(s), Identifiers) -> advance(s)
          [] ~check(named, {"("}) -> named
          [] OTHER -> consume(last, {")"})

\* sentryDeclaration() throws away what the decorators say.
Decorators(s) == IF check(s, {"@"}) THEN Decorators(parseDecorator(s)) ELSE s

declarationBody(s) ==
    CASE check(s, {"gene"}) -> geneDeclaration(advance(s))
      [] check(s, {"class"}) -> classDeclaration(advance(s))
      [] check(s, {"var"}) -> varDeclaration(advance(s))
      [] check(s, {"fun"}) -> funDeclaration(advance(s))
      [] check(s, {"@"}) -> declaration(Decorators(s))
      [] OTHER -> statement(s)

Parse(function, s) ==
    CASE function = "declaration" -> declarationBody(s)
      [] function = "statement" -> statementBody(s)
      [] function = "expression" -> expressionBody(s)
      [] function = "unary" -> unaryBody(s)

-----------------------------------------------------------------------------
(* parse(). *)

initParser == [at |-> 0, prev |-> "", err |-> FALSE, end |-> "reading", node |-> NULL]

Init ==
    /\ text \in Texts
    /\ p = advance(initParser)
    /\ out = <<>>

Declare ==
    /\ ~Halted(p)
    /\ ~isAtEnd(p)
    /\ p' = Iterated(p, declaration(p))
    /\ out' = Append(out, p'.node)
    /\ UNCHANGED text

Finish ==
    /\ ~Halted(p)
    /\ isAtEnd(p)
    /\ p' = [advance(p) EXCEPT !.end = "parsed"]
    /\ UNCHANGED <<text, out>>

Next == Declare \/ Finish

Spec == Init /\ [][Next]_vars

-----------------------------------------------------------------------------
(* What the parser promises: the text of a tree, and the properties that   *)
(* compare the trees it builds with the texts they were built from.        *)

CONSTANT Grammar  \* texts of the language

-----------------------------------------------------------------------------
(* The text that a tree stands for.  A loop's variable is written "_", and *)
(* a method's body as block() reads it.                                    *)

RECURSIVE TextOf(_), TextOfAll(_), Joined(_), Subtrees(_)

TextOfAll(trees) == IF trees = <<>> THEN <<>> ELSE TextOf(Head(trees)) \o TextOfAll(Tail(trees))

Joined(trees) ==
    IF Len(trees) <= 1 THEN TextOfAll(trees)
    ELSE TextOf(Head(trees)) \o <<",">> \o Joined(Tail(trees))

After(word, tree) == IF tree = NULL THEN <<>> ELSE <<word>> \o TextOf(tree)

TraitText(t) == <<"var", t.tok, ":">> \o TextOf(t.kids[2]) \o <<";">>

ExprText(t) ==
    LET k == t.kids IN
    CASE t.kind \in {"literal", "variable", "type", "unit"} -> <<t.tok>>
      [] t.kind = "perform" -> <<"perform", t.tok>>
      [] t.kind = "unary" -> <<t.tok>> \o TextOf(k[1])
      [] t.kind \in {"binary", "logical"} -> TextOf(k[1]) \o <<t.tok>> \o TextOf(k[2])
      [] t.kind = "grouping" -> <<"(">> \o TextOf(k[1]) \o <<")">>
      [] t.kind = "assign" -> <<t.tok, "=">> \o TextOf(k[1])
      [] t.kind = "entangle" -> <<t.tok, "~=">> \o TextOf(k[1])
      [] t.kind = "call" /\ t.tok = "[" -> TextOf(k[1]) \o <<"[">> \o TextOf(k[2]) \o <<"]">>
      [] t.kind = "call" /\ t.tok # "[" -> TextOf(k[1]) \o <<"(">> \o Joined(Tail(k)) \o <<")">>
      [] t.kind = "slice" -> TextOf(k[1]) \o <<"[">> \o Joined(Tail(k)) \o <<"]">>
      [] t.kind = "dimension" ->
            TextOf(k[1]) \o (IF k[2] = NULL /\ k[3] # NULL THEN <<":">> ELSE After(":", k[2]))
                        \o After(":", k[3])
      [] t.kind = "match" ->
            <<"match">> \o TextOf(k[1]) \o <<"{">> \o Joined(Tail(k)) \o <<"}">>
      [] t.kind = "case" ->
            (IF k[1] = NULL THEN <<"_">> ELSE TextOf(k[1]))
                \o After("if", k[2]) \o <<"=>">> \o TextOf(k[3])
      [] OTHER -> <<>>

StmtText(t) ==
    LET k == t.kids IN
    CASE t.kind = "print" -> <<"print">> \o TextOf(k[1]) \o <<";">>
      [] t.kind = "expression" -> TextOf(k[1]) \o <<";">>
      [] t.kind = "block" -> <<"{">> \o TextOfAll(k) \o <<"}">>
      [] t.kind = "if" ->
            <<"if", "(">> \o TextOf(k[1]) \o <<")">> \o TextOf(k[2]) \o After("else", k[3])
      [] t.kind = "while" -> <<"for", "var", "_", "in">> \o TextOf(k[1]) \o TextOf(k[2])
      [] t.kind = "var" ->
            <<"var", t.tok>> \o After(":", k[1]) \o After("=", k[2]) \o <<";">>
      [] t.kind = "function" -> <<"fun", t.tok, "(", ")">> \o TextOf(k[1])
      [] t.kind = "method" -> <<"fun", t.tok, "(", ")">> \o Tail(TextOf(k[1]))
      [] t.kind = "class" ->
            <<"class", t.tok>> \o After("<", k[1]) \o <<"{">> \o TextOfAll(Tail(k)) \o <<"}">>
      [] t.kind = "gene" ->
            <<"gene", t.tok, "{">> \o FlattenSeq([i \in DOMAIN k[2].kids |-> TraitText(k[2].kids[i])])
                \o TextOfAll(k[1].kids) \o <<"}">>

StatementKinds == {"print", "expression", "block", "if", "while", "var", "function", "method",
                "class", "gene"}
TextOf(t) == IF t.kind \in StatementKinds THEN StmtText(t) ELSE ExprText(t)

Subtrees(t) == {t} \union UNION {Subtrees(t.kids[i]) : i \in DOMAIN t.kids}

-----------------------------------------------------------------------------
(* The forms of text whose tree says less than they do. *)

Pairs == {<<text[i], text[i + 1]>> : i \in 1..(Len(text) - 1)}
Uses(tok) == tok \in Range(text)

\* x[1:] and x[1:,2]: a colon without an expression after it leaves no trace;
\* nor does a dimension of which nothing is written.
OpenDimension == Pairs \cap ({":", "[", ","} \X {",", "]"}) # {}

\* var x: T, for a T that is not a system type.
UnknownType ==
    /\ ~Uses("gene")
    /\ \E i \in 1..(Len(text) - 3) :
          /\ text[i] = "var" /\ text[i + 2] = ":"
          /\ text[i + 3] \notin SysTypes \union Units

\* The first name of a pattern is read over.
NamedPattern == Uses("match") /\ Pairs \cap ({"{", ","} \X Names) # {}
TrailingComma == <<",", "}">> \in Pairs
Decorated == Uses("@")

Lossy == OpenDimension \/ UnknownType \/ NamedPattern \/ TrailingComma \/ Decorated

\* The text without the names of loops and the tildes before patterns.
Skeleton ==
    LET variable(i) == i > 2 /\ text[i - 1] = "var" /\ text[i - 2] = "for"
        mark(i) == text[i] = "~" /\ i > 1 /\ text[i - 1] \in {"{", ","}
    IN  SelectSeq([i \in DOMAIN text |-> IF variable(i) THEN "_" ELSE IF mark(i) THEN "" ELSE text[i]],
                  LAMBDA tok : tok # "")

-----------------------------------------------------------------------------
(* Giving trees back: freeExpr and freeStmt of src/core/ast.c. A node goes  *)
(* back to the heap, its arrays to the C library.                           *)

RECURSIVE Built(_), Given(_)

Wrappers == {"list", "case", "dimension", "type", "unit"}
Self(t) == IF t = NULL \/ t.kind \in Wrappers THEN <<>> ELSE <<t>>
EachOf(op(_), trees) == FlattenSeq([i \in DOMAIN trees |-> op(trees[i])])

\* The nodes of a tree, and the arrays the parser made for one.
Built(t) == Self(t) \o EachOf(Built, t.kids)
ArraysOf(t) ==
    CASE t.kind = "call" -> IF Len(t.kids) > 1 THEN {"arguments"} ELSE {}
      [] t.kind = "slice" -> {"starts", "ends", "steps"}
      [] t.kind = "match" -> {"cases"}
      [] t.kind = "block" -> IF t.kids = <<>> THEN {} ELSE {"statements"}
      [] t.kind = "class" -> {"methods"}
      [] t.kind = "gene" -> {"methods", "traits"}
      [] OTHER -> {}

\* What the cleanup goes on to from a node, and the pointers it frees there; one that is
\* NULL is nothing to free.
OnwardExpr(t) ==
    CASE t.kind \in {"literal", "variable", "perform"} -> <<>>
      [] t.kind \in {"grouping", "unary", "assign", "entangle"} -> <<t.kids[1]>>
      [] t.kind \in {"binary", "logical"} -> <<t.kids[1], t.kids[2]>>
      [] OTHER -> t.kids
FreedExpr(t) ==
    CASE t.kind = "call" -> {"arguments"}
      [] t.kind = "slice" -> {"starts", "ends", "steps"}
      [] t.kind = "match" -> {"cases"}
      [] OTHER -> {}

OnwardStmt(t) ==
    CASE t.kind \in {"expression", "print", "function", "method"} -> <<t.kids[1]>>
      [] t.kind = "var" -> <<t.kids[2]>>
      [] t.kind = "while" -> <<t.kids[1], t.kids[2]>>
      [] t.kind = "class" -> Tail(t.kids)   \* the superclass is passed over
      [] OTHER -> t.kids
FreedStmt(t) ==
    CASE t.kind = "block" -> {"statements"}
      [] t.kind = "class" -> {"methods"}
      [] t.kind = "gene" -> {"methods", "traits"}
      [] OTHER -> {}

Given(t) ==
    IF t.kind \in StatementKinds THEN Self(t) \o EachOf(Given, OnwardStmt(t))
    ELSE Self(t) \o EachOf(Given, OnwardExpr(t))
FreedAt(t) == IF t.kind \in StatementKinds THEN FreedStmt(t) ELSE FreedExpr(t)

Superclasses(t) == SelectSeq(Built(t), LAMBDA c : c.kind = "class" /\ c.kids[1] # NULL)

-----------------------------------------------------------------------------
\* What is parsed is given back whole, errors or not: each node once, with the arrays
\* that were made for it, but for the names of superclasses (ast.c:388).
TreesGivenBack ==
    \A i \in DOMAIN out :
        /\ Len(Given(out[i])) + Len(Superclasses(out[i])) = Len(Built(out[i]))
        /\ Range(Given(out[i])) \subseteq Range(Built(out[i]))
        /\ \A t \in Range(Given(out[i])) : ArraysOf(t) \subseteq FreedAt(t)

\* A text of the language is parsed to its end without an error: no function
\* leaves a token to its caller that the caller does not expect, however
\* statements and expressions are nested.
GrammarAccepted == text \in Grammar => ~p.err /\ p.end \in {"reading", "parsed"}

\* A text that is parsed without an error is the text of the statements that
\* come out: nothing that is written gets lost, moves or is read twice, and
\* whatever is not of the language is reported.  The forms for which the code
\* gives this up are named in Lossy.
AcceptedAsWritten ==
    p.end = "parsed" /\ ~p.err /\ ~Lossy => TextOfAll(out) = Skeleton

Level(t) ==
    CASE t.kind = "binary" -> 1
      [] t.kind = "logical" /\ t.tok = "and" -> 2
      [] t.kind = "logical" /\ t.tok = "or" -> 3
      [] t.kind \in {"assign", "entangle"} -> 4
      [] OTHER -> 0

\* Chains of operators group to the left, "and" binds closer than "or" and an
\* assignment takes all that follows, also in a text with errors.
OperatorsGroup ==
    \A tree \in UNION {Subtrees(out[i]) : i \in DOMAIN out} :
        /\ Level(tree) \in 1..3 =>
              Level(tree.kids[1]) <= Level(tree) /\ Level(tree.kids[2]) < Level(tree)
        /\ tree.kind = "unary" => Level(tree.kids[1]) = 0

\* What a text says is what is built from it, and what is built is given back (each
\* part is stated above).
SentencesKept == GrammarAccepted /\ AcceptedAsWritten /\ OperatorsGroup /\ TreesGivenBack

\* The parser crashes only after it has reported an error, and no loop of it
\* is without progress but that of a gene whose member starts with neither
\* "var" nor "fun"; otherwise it has read its text to the end, errors or not.
HaltsExplained ==
    /\ p.end = "parsed" => p.at = Len(text) + 1
    /\ p.end = "crashed" => p.err
    /\ p.end = "looping" => Uses("gene") /\ Current(p) \notin {"var", "fun"}
=============================================================================
