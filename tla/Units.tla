------------------------------- MODULE Units --------------------------------
(***************************************************************************)
(* Physical units and physical layouts: the registry that resolves a unit   *)
(* to its dimensions (src/sys/sys_units_registry.c), their algebra          *)
(* (sys_units_math.c), the checks the compiler makes of an expression and   *)
(* of a local's declaration (sys_units_check.c, core/compiler.c), the types *)
(* (sys_types.c) and the offsets of a layout's members (sys_layout.c).      *)
(***************************************************************************)
EXTENDS Integers, Sequences, FiniteSets, FiniteSetsExt, SequencesExt, TLC

CONSTANTS Dimensions,   \* the seven base dimensions
          Atomic,       \* standardTable, from names to vectors
          UnitTexts,    \* bound: the texts between the angle brackets
          Trees,        \* bound: the initializers of a declaration
          TypeSizes,    \* typeRegistry, from names of types to bytes
          DefaultType,  \* the type of a name that is in no row
          BitWidths,    \* bound: the widths of bit fields, 0 for none
          MaxMembers    \* bound: the members of a layout

ASSUME UnitsAssumption ==
  /\ \A u \in DOMAIN Atomic : Atomic[u] \in [Dimensions -> Int]
  /\ DefaultType \in DOMAIN TypeSizes

VARIABLES unitText, vector,         \* a constraint's text and its dimensions
          tree, dims, visits,       \* an initializer, the dimensions of its nodes, what
                                    \* the compiler has still to visit
          isLocal, verdict,         \* whether a block is open; what the compiler said
          members, isUnion, placed  \* a layout's members, and what sys_layout_calculate
                                    \* makes of them

unitVars == <<unitText, vector, tree, dims, visits, isLocal, verdict>>
layoutVars == <<members, isUnion, placed>>

wld_dim_empty == [d \in Dimensions |-> 0]
wld_dim_multiply(a, b) == [d \in Dimensions |-> a[d] + b[d]]
wld_dim_divide(a, b) == [d \in Dimensions |-> a[d] - b[d]]
wld_dim_is_scalar(v) == v = wld_dim_empty

-----------------------------------------------------------------------------
\* The pieces of a text between the characters mark, none of them empty.
Parts(s, mark) ==
  SelectSeq(FoldLeft(LAMBDA acc, c : IF c = mark THEN Append(acc, <<>>)
                                     ELSE [acc EXCEPT ![Len(acc)] = Append(@, c)],
                     <<<<>>>>, s), LAMBDA p : p # <<>>)

\* A text before the first place of a mark, and after it.
Cut(s, mark) ==
  LET at == {i \in DOMAIN s : s[i] = mark}
  IN  IF at = {} THEN [before |-> s, found |-> FALSE, after |-> <<>>]
      ELSE [before |-> SubSeq(s, 1, Min(at) - 1), found |-> TRUE,
            after |-> SubSeq(s, Min(at) + 1, Len(s))]

\* atoi reads leading digits; after a minus they make a negative number.
DigitValue == ("0" :> 0) @@ ("1" :> 1) @@ ("2" :> 2) @@ ("3" :> 3)
DigitsRead(s) == LET n == Min({i \in 1 .. Len(s) + 1 : i > Len(s) \/ s[i] \notin DOMAIN DigitValue})
             IN  FoldLeft(LAMBDA acc, c : acc * 10 + DigitValue[c], 0, SubSeq(s, 1, n - 1))
AtoiOf(s) == IF s # <<>> /\ Head(s) = "-" THEN -DigitsRead(Tail(s)) ELSE DigitsRead(s)

\* find_atomic: an unknown name has no dimension.
find_atomic(name) == IF Len(name) = 1 /\ Head(name) \in DOMAIN Atomic THEN Atomic[Head(name)]
                     ELSE wld_dim_empty

\* The exponent behind the first hat, one without; what is negative counts no time.
Exponent(token) ==
  LET hat == Cut(token, "^") IN IF hat.found THEN Max({0, AtoiOf(hat.after)}) ELSE 1

Power(token) == LET atomic == find_atomic(Cut(token, "^").before)
                IN  [d \in Dimensions |-> Exponent(token) * atomic[d]]

\* sys_units_resolve: the factors before the first slash multiply, those after divide.
sys_units_resolve(s) ==
  LET slash == Cut(s, "/")
      above == FoldLeft(LAMBDA v, t : wld_dim_multiply(v, Power(t)), wld_dim_empty, Parts(slash.before, "*"))
  IN  FoldLeft(LAMBDA v, t : wld_dim_divide(v, Power(t)), above, Parts(slash.after, "*"))

\* What a text of known names, one slash at most and no negative exponent says, read
\* place by place.
WellWritten(s) ==
  /\ Cardinality({i \in DOMAIN s : s[i] = "/"}) <= 1
  /\ \A i \in DOMAIN s :
       CASE s[i] \in DOMAIN Atomic -> i = 1 \/ s[i - 1] \in {"*", "/"}
         [] s[i] \in DOMAIN DigitValue -> i > 1 /\ s[i - 1] = "^"
         [] s[i] = "^" -> i > 1 /\ s[i - 1] \in DOMAIN Atomic /\ i < Len(s) /\ s[i + 1] \in DOMAIN DigitValue
         [] OTHER -> s[i] \in {"*", "/"}
Meant(s) ==
  [d \in Dimensions |->
    FoldSet(LAMBDA i, acc :
              acc + (IF \E j \in 1 .. i : s[j] = "/" THEN -1 ELSE 1)
                    * (IF i + 2 <= Len(s) /\ s[i + 1] = "^" THEN DigitValue[s[i + 2]] ELSE 1)
                    * Atomic[s[i]][d],
            0, {i \in DOMAIN s : s[i] \in DOMAIN Atomic})]

-----------------------------------------------------------------------------
\* A tree is a function from the paths of its nodes to what stands there: an operator,
\* or "leaf" for a literal, a variable or any other expression.
Leaf == [p \in {<<>>} |-> "leaf"]

UnitsInit ==
  /\ unitText = <<>> /\ vector = wld_dim_empty /\ tree = Leaf
  /\ dims = [p \in {<<>>} |-> wld_dim_empty]
  /\ visits = <<>> /\ isLocal = FALSE /\ verdict = "idle"
  /\ members = <<>> /\ isUnion \in BOOLEAN /\ placed = [size |-> 0, failed |-> FALSE, offsets |-> <<>>, spans |-> <<>>]

\* The parser resolves the constraint; every node begins without a dimension.
Declare(s, t, local) ==
  /\ verdict = "idle"
  /\ unitText' = s /\ vector' = sys_units_resolve(s)
  /\ tree' = t /\ dims' = [p \in DOMAIN t |-> wld_dim_empty]
  /\ visits' = <<<<>>>> /\ isLocal' = local /\ verdict' = "none"
  /\ UNCHANGED layoutVars

\* sys_units_validate_binary: the dimension of the result, or that there is none.
Refuses(op, left, right) == op \in {"+", "-", ">", "<", "=="} /\ left # right
ResultOf(op, left, right) ==
  CASE op = "*" -> wld_dim_multiply(left, right)
    [] op = "/" -> wld_dim_divide(left, right)
    [] op \in {">", "<", "=="} -> wld_dim_empty
    [] OTHER -> left

\* compileExpr: a binary node is checked before its operands are compiled, whose own
\* dimensions are what they were at first.
Visit ==
  /\ visits # <<>>
  /\ LET p == Head(visits)
     IN  IF tree[p] = "leaf"
         THEN visits' = Tail(visits) /\ UNCHANGED <<dims, verdict>>
         ELSE LET left  == dims[Append(p, 1)]
                  right == dims[Append(p, 2)]
              IN  /\ visits' = <<Append(p, 1), Append(p, 2)>> \o Tail(visits)
                  /\ IF Refuses(tree[p], left, right)
                     THEN verdict' = "refused" /\ UNCHANGED dims
                     ELSE dims' = [dims EXCEPT ![p] = ResultOf(tree[p], left, right)]
                          /\ UNCHANGED verdict
  /\ UNCHANGED <<unitText, vector, tree, isLocal, layoutVars>>

\* STMT_VAR with its initializer compiled: sys_units_validate_assignment, for a local.
AssignmentHolds == wld_dim_is_scalar(vector) \/ vector = dims[<<>>]
Assign ==
  /\ visits = <<>> /\ verdict = "none"
  /\ verdict' = IF isLocal /\ ~AssignmentHolds THEN "refused" ELSE "accepted"
  /\ UNCHANGED <<unitText, vector, tree, dims, visits, isLocal, layoutVars>>

\* A constraint means what it says.
UnitsResolved == WellWritten(unitText) => vector = Meant(unitText)

\* As built no operand has a dimension when its operator is checked: no sum and no
\* comparison is ever refused, whatever its operands, and every local declared with a
\* unit is (sys_units_check.c:68), whatever it is given.
UnitsVerdict ==
  /\ verdict = "refused" => isLocal /\ ~wld_dim_is_scalar(vector)
  /\ verdict = "accepted" /\ isLocal => wld_dim_is_scalar(vector)

-----------------------------------------------------------------------------
\* sys_resolve_type_name
SizeOf(name) == TypeSizes[IF name \in DOMAIN TypeSizes THEN name ELSE DefaultType]
RoundedUp(n, alignment) == ((n + alignment - 1) \div alignment) * alignment
\* Bits of a layout: the first and how many.
BitsOf(from, n) == [from |-> from, n |-> n]
ShareBits(a, b) == a.n > 0 /\ b.n > 0 /\ a.from < b.from + b.n /\ b.from < a.from + a.n

\* mutant: the byte that bit fields have begun is given to the next member too
PlacedOverBits(at, m) ==
  LET size   == SizeOf(m.type)
      offset == RoundedUp(at.offset, Max({1, size}))
  IN  IF m.bits = 0
      THEN [at EXCEPT !.offset = offset + size, !.bit = 0, !.alignment = Max({@, size}),
                      !.offsets = Append(@, offset), !.spans = Append(@, BitsOf(8 * offset, 8 * size))]
      ELSE [at EXCEPT !.offset = @ + (at.bit + m.bits) \div 8, !.bit = (@ + m.bits) % 8,
                      !.alignment = Max({@, size}), !.offsets = Append(@, at.offset),
                      !.spans = Append(@, BitsOf(8 * at.offset + at.bit, m.bits))]

\* One turn of the loop: a member of bytes ends the byte of the bit fields before it
\* and is aligned to its own size; a bit field goes on where the last one ended.
Placed(at, m) ==
  LET size   == SizeOf(m.type)
      begun  == at.offset + (IF at.bit > 0 THEN 1 ELSE 0)
      offset == RoundedUp(begun, Max({1, size}))
  IN  IF m.bits = 0
      THEN [at EXCEPT !.offset = offset + size, !.bit = 0, !.alignment = Max({@, size}),
                      !.offsets = Append(@, offset), !.spans = Append(@, BitsOf(8 * offset, 8 * size))]
      ELSE [at EXCEPT !.offset = @ + (at.bit + m.bits) \div 8, !.bit = (@ + m.bits) % 8,
                      !.alignment = Max({@, size}), !.offsets = Append(@, at.offset),
                      !.spans = Append(@, BitsOf(8 * at.offset + at.bit, m.bits))]

sys_layout_calculate(list, union) ==
  LET after == FoldLeft(Placed, [offset |-> 0, bit |-> 0, alignment |-> 1, offsets |-> <<>>, spans |-> <<>>], list)
      bytes == after.offset + (IF after.bit > 0 THEN 1 ELSE 0)
  IN  IF union
      THEN [size |-> Max({0} \cup {SizeOf(list[i].type) : i \in DOMAIN list}),
            offsets |-> [i \in DOMAIN list |-> 0],
            spans |-> [i \in DOMAIN list |-> BitsOf(0, 8 * SizeOf(list[i].type))]]
      ELSE [size |-> RoundedUp(bytes, after.alignment), offsets |-> after.offsets, spans |-> after.spans]

\* layoutDeclaration with one member more. The width of a bit field is read but not
\* consumed: the semicolon is missed at it, the text has failed, and the next turn takes
\* the width for the type of a member nobody wrote. The layout is computed all the same.
Member(type, bits) ==
  /\ Len(members) < MaxMembers
  /\ members' = members \o (IF bits = 0 THEN <<[type |-> type, bits |-> 0]>>
                           ELSE <<[type |-> type, bits |-> bits], [type |-> DefaultType, bits |-> 0]>>)
  /\ LET l == sys_layout_calculate(members', isUnion)
     IN  placed' = [size |-> l.size, offsets |-> l.offsets, spans |-> l.spans,
                    failed |-> placed.failed \/ bits # 0]
  /\ UNCHANGED <<unitVars, isUnion>>

UnitsNext ==
  \/ \E s \in UnitTexts, t \in Trees, local \in BOOLEAN : Declare(s, t, local)
  \/ Visit \/ Assign
LayoutNext == \E type \in DOMAIN TypeSizes \cup {"other"}, bits \in BitWidths : Member(type, bits)

\* No two members of a layout share a bit, each lies inside the size the layout is
\* given, and a member of bytes, and a second layout behind the first, are aligned. The
\* members of a union share their first byte and fit.
LayoutSound ==
  /\ \A i, j \in DOMAIN members : i # j /\ ~isUnion => ~ShareBits(placed.spans[i], placed.spans[j])
  /\ \A i \in DOMAIN members :
       LET size == SizeOf(members[i].type)
       IN  /\ placed.spans[i].from + placed.spans[i].n <= 8 * placed.size
           /\ members[i].bits = 0 /\ size > 0 => placed.offsets[i] % size = 0
           /\ ~isUnion /\ size > 0 => placed.size % size = 0

\* Units and layouts (each stated above).
UnitsSound == UnitsResolved /\ UnitsVerdict /\ LayoutSound
=============================================================================
