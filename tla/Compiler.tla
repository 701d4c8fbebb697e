------------------------------ MODULE Compiler ------------------------------
(***************************************************************************)
(* The single pass from a program to register code, and the machine that   *)
(* runs the code: src/core/compiler.c and the loop of src/core/vm.c.       *)
(*                                                                         *)
(* compileStmt and compileExpr recurse over the syntax tree.  Here the     *)
(* recursion is explicit: "calls" holds the activations of the two         *)
(* functions, "wanted" what the innermost one waits for, and one action is *)
(* one case of their switches, up to its next recursive call.  The tree is *)
(* not given beforehand: each action also picks the node that it compiles, *)
(* so that the behaviours range over all programs of at most MaxNodes      *)
(* statements and operators.  While a program is compiled, "meaning"       *)
(* executes it the way its text says, and once it is compiled the machine  *)
(* runs its code.                                                          *)
(*                                                                         *)
(* An instruction carries the constant it names beside the index of it.    *)
(* The machine that is built does not read such an index the way it was    *)
(* written, nor the distance of a jump (see GET_BC): "order" says in which *)
(* order it takes the two bytes, so that both that machine and the one the *)
(* compiler writes for are modelled, and "misread" that one was read       *)
(* otherwise.  One operator stands for the seven of binary(), which        *)
(* compile alike.  Arithmetic is symbolic: a difference is the pair of its *)
(* parts.                                                                  *)
(***************************************************************************)
EXTENDS Integers, FiniteSets, Sequences, SequencesExt

CONSTANTS
    Names,      \* the identifiers of a program
    Literals,   \* the values written in a program
    Immediate,  \* those of them that are nil, true or false
    Falsy,      \* those of them that are nil or false
    Sizes,      \* the sizes of the types of variables, in bytes
    MaxReg,     \* registers of a function (250 in allocReg)
    MaxArgs,    \* bound: arguments of a system call
    MaxNodes,   \* bound: statements and operators of a program
    MaxNesting, \* bound: activations of compileStmt and compileExpr
    Zero,       \* what the machine's stack holds at first
    Reply,      \* what the kernel answers to a system call
    Unset,      \* a value that the text of the program does not determine
    Orders      \* the orders of two operand bytes in the machines of this model

ASSUME Bounds == /\ {MaxReg, MaxArgs, MaxNodes, MaxNesting} \subseteq Nat
                 /\ Sizes \subseteq 0..8
                 /\ Falsy \subseteq Immediate
                 /\ Immediate \subseteq Literals
                 /\ Orders \subseteq {"high first", "low first"}

VARIABLES
    phase,      \* compiling, rejected, running, halted or strayed
    compilers,  \* the chain of SovereignCompilers, the current one last
    calls,      \* the activations of compileStmt and compileExpr
    wanted,     \* what the innermost activation waits for, or was given
    hadError,   \* the flag that rejects the program
    nodes,      \* the statements and operators compiled so far
    meaning,    \* the effect of the program so far, by its text
    vm,         \* the machine
    order,      \* the order in which it takes two operand bytes
    misread     \* whether it has read two of them otherwise than they were written

vars == <<phase, compilers, calls, wanted, hadError, nodes, meaning, vm, order, misread>>

Empty == [x \in {} |-> Unset]
With(f, x, v) == [y \in DOMAIN f \union {x} |-> IF y = x THEN v ELSE f[y]]

-----------------------------------------------------------------------------
(* The compiler's record, its registers and its locals. *)

current == Last(compilers)
Outermost == Len(compilers) = 1

NewCompiler(depth) ==
    [regTop |-> 1, packReg |-> 0, packOffset |-> 0, locals |-> <<>>,
     scopeDepth |-> depth, code |-> <<>>]

\* mutant: allocReg gives away the register that small variables are packed in
FlushedNever(c) == c.regTop
Flushed(c) == IF c.packOffset > 0 THEN c.regTop + 1 ELSE c.regTop
Exhausted(c) == Flushed(c) >= MaxReg
allocReg(c) == IF Exhausted(c) THEN 0 ELSE Flushed(c)
Allocated(c) ==
    [c EXCEPT !.regTop = IF Exhausted(c) THEN Flushed(c) ELSE Flushed(c) + 1,
              !.packOffset = 0]

freeReg(c, reg) ==
    IF reg = c.regTop - 1 THEN [c EXCEPT !.regTop = reg, !.packOffset = 0] ELSE c

\* allocSysLocal: small variables share a register, byte by byte. One of no bytes, a
\* void, is given the place of the next one: no register is kept for it.
Packs(c, size) == c.packOffset + size <= 8
PackReg(c, size) ==
    CASE c.packOffset = 0 -> c.regTop
      [] c.packOffset > 0 /\ Packs(c, size) -> c.packReg
      [] OTHER -> c.regTop + 1
PackOffset(c, size) == IF Packs(c, size) THEN c.packOffset ELSE 0
Placed(c, size) ==
    IF size = 8 THEN [reg |-> allocReg(c), offset |-> 0]
    ELSE [reg |-> PackReg(c, size), offset |-> PackOffset(c, size)]
Reserved(c, size) ==
    LET end == PackOffset(c, size) + size
        top == IF Packs(c, size) THEN c.regTop ELSE c.regTop + 1
    IN  IF size = 8 THEN Allocated(c)
        ELSE [c EXCEPT !.packReg = PackReg(c, size),
                       !.regTop = IF end = 8 THEN top + 1 ELSE top,
                       !.packOffset = IF end = 8 THEN 0 ELSE end]

declareLocal(c, x, size) ==
    LET place == Placed(c, size)
        local == [name |-> x, size |-> size, reg |-> place.reg, offset |-> place.offset]
    IN  [Reserved(c, size) EXCEPT !.locals = Append(@, local)]

\* resolveLocal: the declaration added last, in an open block or in a closed one.
Declares(c, x) == \E i \in DOMAIN c.locals : c.locals[i].name = x
resolveLocal(c, x) ==
    c.locals[SelectLastInSeq(c.locals, LAMBDA l : l.name = x)].reg

Emitted(c, inst) == [c EXCEPT !.code = Append(@, inst)]

\* makeConstant: each constant is added to the table for one instruction, and its index
\* is the number of those before it.
Indexed == {"LOAD_CONST", "GET_GLOBAL", "DEFINE_GLOBAL", "CLOSURE"}
makeConstant(c) == Len(SelectSeq(c.code, LAMBDA inst : inst[1] \in Indexed))
\* patchJump: the distance from the jump at "offset" to the end of the code.
patchJump(c, offset) ==
    [c EXCEPT !.code[offset][3] = Len(c.code) - offset]

-----------------------------------------------------------------------------
(* The recursion: what an activation asks of the next, and what it gives back. *)

Become(c) == compilers' = Append(Front(compilers), c)
Call(frame) == calls' = Append(calls, frame)
Caller == Last(calls)
At == IF calls = <<>> THEN "program" ELSE Caller.at
Outer == IF Len(calls) < 2 THEN "program" ELSE calls[Len(calls) - 1].at
Return == calls' = Front(calls)

\* compileExpr(e, -1): the expression goes into a new register.
AskFresh(c) ==
    /\ Become(Allocated(c))
    /\ hadError' = Exhausted(c)
    /\ wanted' = [is |-> "expression", dst |-> allocReg(c)]

\* compileExpr(e, reg)
AskInto(c, reg) ==
    /\ Become(c)
    /\ wanted' = [is |-> "expression", dst |-> reg]
    /\ UNCHANGED hadError

Give(c, reg, val) ==
    /\ Become(c)
    /\ wanted' = [is |-> "register", reg |-> reg, val |-> val]
    /\ UNCHANGED hadError

AskStatement(c) ==
    /\ Become(c)
    /\ wanted' = [is |-> "statement"]
    /\ UNCHANGED hadError

\* The innermost activation, a statement, has returned: a block goes on with
\* its next statement, a branch is complete.
Done(c) ==
    /\ Become(c)
    /\ wanted' = IF Outer \in {"then", "else"} THEN [is |-> "done"]
                 ELSE [is |-> "statement"]
    /\ UNCHANGED hadError

Compiling == phase = "compiling" /\ ~hadError /\ UNCHANGED <<phase, vm, order, misread>>
Node == Compiling /\ nodes < MaxNodes /\ nodes' = nodes + 1
Nested == Len(calls) < MaxNesting
Leaf == wanted.is = "expression" /\ Compiling /\ UNCHANGED nodes
Expression == wanted.is = "expression" /\ Node
Statement == wanted.is = "statement" /\ Node
Given(at) ==
    /\ wanted.is = "register"
    /\ Compiling
    /\ At = at
    /\ UNCHANGED nodes

\* A declaration cannot be a branch by itself: statement() parses branches.
InBranch == At \in {"then", "else"}

-----------------------------------------------------------------------------
(* What the text of the program says. *)

IsFalsey(v) == v \in Falsy

\* The program is in a branch that is taken, and not in a function's body.
Executed ==
    \A i \in DOMAIN calls :
        CASE calls[i].at = "then" -> calls[i].taken
          [] calls[i].at = "else" -> ~calls[i].taken
          [] calls[i].at = "function" -> FALSE
          [] OTHER -> TRUE

Says(effect) ==
    meaning' = [meaning EXCEPT !.out = IF Executed THEN Append(@, effect) ELSE @]

Opened == Append(meaning.scopes, Empty)
Closed == Front(meaning.scopes)
Bound(x, val) ==
    [meaning EXCEPT !.scopes = Append(Front(@), With(Last(@), x, val))]
\* A void has no storage: the text gives it no value.
InStorage(size, val) == IF size = 0 THEN Unset ELSE val
BoundGlobal(x, val) == [meaning EXCEPT !.globals = With(@, x, val)]

Scope(x) == {i \in DOMAIN meaning.scopes : x \in DOMAIN meaning.scopes[i]}

\* The bounds on names: a name is declared once, and it is read where the
\* text gives it a value and no closure is needed to reach it.
Fresh(x) ==
    /\ \A i \in DOMAIN compilers : ~Declares(compilers[i], x)
    /\ x \notin DOMAIN meaning.globals
ValueOf(x) ==
    IF Scope(x) # {} THEN meaning.scopes[CHOOSE i \in Scope(x) : TRUE][x]
    ELSE meaning.globals[x]
Readable(x) ==
    /\ Declares(current, x) => Scope(x) # {}
    /\ ~Declares(current, x) =>
          /\ \A i \in DOMAIN compilers : ~Declares(compilers[i], x)
          /\ x \in DOMAIN meaning.globals
    /\ ValueOf(x) # Unset

-----------------------------------------------------------------------------
(* compileExpr, case by case. *)

Literal(v) ==
    /\ Leaf
    /\ LET inst == IF v \in Immediate THEN <<"LOAD", wanted.dst, v>>
                   ELSE <<"LOAD_CONST", wanted.dst, v, makeConstant(current)>>
       IN  Give(Emitted(current, inst), wanted.dst, v)
    /\ UNCHANGED <<calls, meaning>>

Variable(x) ==
    /\ Leaf
    /\ Readable(x)
    /\ LET inst == IF Declares(current, x)
                   THEN <<"MOVE", wanted.dst, resolveLocal(current, x)>>
                   ELSE <<"GET_GLOBAL", wanted.dst, x, makeConstant(current)>>
       IN  Give(Emitted(current, inst), wanted.dst, ValueOf(x))
    /\ UNCHANGED <<calls, meaning>>

Binary ==
    /\ Expression
    /\ Nested
    /\ Call([at |-> "left", dst |-> wanted.dst])
    /\ AskFresh(current)
    /\ UNCHANGED meaning

AfterLeft ==
    /\ Given("left")
    /\ calls' = Append(Front(calls), [at |-> "right", dst |-> Caller.dst,
                                      reg |-> wanted.reg, val |-> wanted.val])
    /\ AskFresh(current)
    /\ UNCHANGED meaning

BinaryEmitted(c, dst, r1, r2) ==
    freeReg(freeReg(Emitted(c, <<"SUB", dst, r1, r2>>), r2), r1)

AfterRight ==
    /\ Given("right")
    /\ Give(BinaryEmitted(current, Caller.dst, Caller.reg, wanted.reg),
            Caller.dst, <<"-", Caller.val, wanted.val>>)
    /\ Return
    /\ UNCHANGED meaning

\* alloc(e) and *e: the operand goes into a register of its own.
Unary ==
    /\ Expression
    /\ Nested
    /\ Call([at |-> "operand", dst |-> wanted.dst])
    /\ AskFresh(current)
    /\ UNCHANGED meaning

AfterOperand ==
    /\ Given("operand")
    /\ Give(freeReg(Emitted(current, <<"READ", Caller.dst, wanted.reg>>), wanted.reg),
            Caller.dst, <<"*", wanted.val>>)
    /\ Return
    /\ UNCHANGED meaning

Syscall(count) ==
    /\ Expression
    /\ Nested
    /\ Call([at |-> "id", dst |-> wanted.dst, count |-> count])
    /\ AskFresh(current)
    /\ UNCHANGED meaning

SyscallEmitted(c, dst, id, start, count) ==
    freeReg(freeReg(Emitted(c, <<"SYSCALL", dst, id, count>>), start), id)

AfterIdAlone ==
    /\ Given("id")
    /\ Caller.count = 0
    /\ Become(SyscallEmitted(Allocated(current), Caller.dst, wanted.reg,
                             allocReg(current), 0))
    /\ hadError' = Exhausted(current)
    /\ wanted' = [is |-> "register", reg |-> Caller.dst, val |-> Reply]
    /\ Says(<<"syscall", wanted.val>>)
    /\ Return

\* Only the first argument's register is allocated.
AfterId ==
    /\ Given("id")
    /\ Caller.count > 0
    /\ LET start == allocReg(current)
           frame == [at |-> "argument", dst |-> Caller.dst, id |-> wanted.reg,
                     start |-> start, count |-> Caller.count, vals |-> <<wanted.val>>,
                     spoilt |-> FALSE]
       IN  /\ calls' = Append(Front(calls), frame)
           /\ Become(Allocated(current))
           /\ wanted' = [is |-> "expression", dst |-> start]
           /\ hadError' = Exhausted(current)
    /\ UNCHANGED meaning

\* The third argument and those behind it: the registers of the arguments from the
\* second on are not allocated, so one that needs a register overwrites the second.
Computed == Last(current.code)[1] \in {"SUB", "READ", "SYSCALL"}
Spoils(vals) == Len(vals) > 3 /\ Computed

AfterArgument ==
    /\ Given("argument")
    /\ LET vals == Append(Caller.vals, wanted.val)
           more == Len(vals) <= Caller.count
           spoilt == Caller.spoilt \/ Spoils(vals)
       IN  IF more
           THEN /\ calls' = [calls EXCEPT ![Len(calls)].vals = vals,
                                          ![Len(calls)].spoilt = spoilt]
                /\ AskInto(current, Caller.start + Len(vals) - 1)
                /\ UNCHANGED meaning
           ELSE /\ Give(SyscallEmitted(current, Caller.dst, Caller.id, Caller.start, Caller.count),
                        Caller.dst, Reply)
                /\ Says(IF spoilt THEN Unset ELSE <<"syscall">> \o vals)
                /\ Return

\* The default of the switch, for a node that has no case: parentheses, !e,
\* -e, an assignment, a call, ...  Nothing is emitted.  Bound: such a node is
\* a whole initializer or all that is printed.
Uncompiled ==
    /\ Leaf
    /\ At \in {"print", "global", "var"}
    /\ Give(current, wanted.dst, Unset)
    /\ UNCHANGED <<calls, meaning>>

-----------------------------------------------------------------------------
(* compileStmt, case by case. *)

PrintStmt ==
    /\ Statement
    /\ Nested
    /\ Call([at |-> "print"])
    /\ AskFresh(current)
    /\ UNCHANGED meaning

AfterPrint ==
    /\ Given("print")
    /\ Done(freeReg(Emitted(current, <<"PRINT", wanted.reg>>), wanted.reg))
    /\ Says(wanted.val)
    /\ Return

VarGlobal(x) ==
    /\ Statement
    /\ Nested
    /\ current.scopeDepth = 0
    /\ ~InBranch
    /\ ~Declares(current, x)
    /\ Call([at |-> "global", name |-> x])
    /\ AskFresh(current)
    /\ UNCHANGED meaning

DefinedGlobal(c, reg, x) ==
    freeReg(Emitted(c, <<"DEFINE_GLOBAL", reg, x, makeConstant(c)>>), reg)

AfterVarGlobal ==
    /\ Given("global")
    /\ Done(DefinedGlobal(current, wanted.reg, Caller.name))
    /\ meaning' = BoundGlobal(Caller.name, wanted.val)
    /\ Return

\* "var x;" defines x from a register that nothing has been loaded into.
VarGlobalAlone(x) ==
    /\ Statement
    /\ current.scopeDepth = 0
    /\ ~InBranch
    /\ ~Declares(current, x)
    /\ Become(DefinedGlobal(Allocated(current), allocReg(current), x))
    /\ hadError' = Exhausted(current)
    /\ wanted' = [is |-> "statement"]
    /\ meaning' = BoundGlobal(x, Unset)
    /\ UNCHANGED calls

VarLocal(x, size) ==
    /\ Statement
    /\ Nested
    /\ current.scopeDepth > 0
    /\ ~InBranch
    /\ Fresh(x)
    /\ LET c == declareLocal(current, x, size)
       IN  /\ calls' = Append(calls, [at |-> "var", name |-> x, size |-> size])
           /\ Become(Allocated(c))
           /\ hadError' = (Exhausted(c) \/ (size = 8 /\ Exhausted(current)))
           /\ wanted' = [is |-> "expression", dst |-> allocReg(c)]
    /\ meaning' = Bound(x, Unset)

\* OP_MOVE and OP_SYS_STORE_U64 copy the whole register, whatever the offset.
AfterVarLocal ==
    /\ Given("var")
    /\ LET reg == resolveLocal(current, Caller.name)
       IN  Done(freeReg(Emitted(current, <<"MOVE", reg, wanted.reg>>), wanted.reg))
    /\ meaning' = Bound(Caller.name, InStorage(Caller.size, wanted.val))
    /\ Return

VarLocalAlone(x, size) ==
    /\ Statement
    /\ current.scopeDepth > 0
    /\ ~InBranch
    /\ Fresh(x)
    /\ Become(declareLocal(current, x, size))
    /\ hadError' = (size = 8 /\ Exhausted(current))
    /\ wanted' = [is |-> "statement"]
    /\ meaning' = Bound(x, Unset)
    /\ UNCHANGED calls

Block ==
    /\ Statement
    /\ Nested
    /\ Call([at |-> "block"])
    /\ AskStatement([current EXCEPT !.scopeDepth = @ + 1])
    /\ meaning' = [meaning EXCEPT !.scopes = Opened]

\* The locals of the block stay in the compiler's record.
CloseBlock ==
    /\ wanted.is = "statement"
    /\ Compiling
    /\ At = "block"
    /\ Done([current EXCEPT !.scopeDepth = @ - 1])
    /\ meaning' = [meaning EXCEPT !.scopes = Closed]
    /\ Return
    /\ UNCHANGED nodes

\* The body is a block that a compiler of its own compiles; the parser gives
\* it no parameters.  Bound: a function contains no function.
Function(x) ==
    /\ Statement
    /\ Nested
    /\ ~InBranch
    /\ Outermost
    /\ Fresh(x)
    /\ Call([at |-> "function", name |-> x])
    /\ compilers' = Append(compilers, NewCompiler(2))
    /\ wanted' = [is |-> "statement"]
    /\ meaning' = [meaning EXCEPT !.scopes = Opened]
    /\ UNCHANGED hadError

ClosureEmitted(c, reg, x) == Emitted(c, <<"CLOSURE", reg, x, makeConstant(c)>>)

\* In a block the closure is bound to nothing.
CloseFunction ==
    /\ wanted.is = "statement"
    /\ Compiling
    /\ At = "function"
    /\ LET c == compilers[Len(compilers) - 1]
           reg == allocReg(c)
           closure == ClosureEmitted(Allocated(c), reg, Caller.name)
           atTop == c.scopeDepth = 0
       IN  /\ compilers' = Append(Front(Front(compilers)),
                   IF atTop THEN DefinedGlobal(closure, reg, Caller.name)
                   ELSE freeReg(closure, reg))
           /\ hadError' = Exhausted(c)
           /\ meaning' = [meaning EXCEPT
                   !.scopes = Closed,
                   !.globals = IF atTop
                               THEN With(@, Caller.name, <<"closure", Caller.name>>)
                               ELSE @]
    /\ wanted' = [is |-> "statement"]
    /\ Return
    /\ UNCHANGED nodes

If ==
    /\ Statement
    /\ Nested
    /\ Call([at |-> "condition"])
    /\ AskFresh(current)
    /\ UNCHANGED meaning

AfterCondition ==
    /\ Given("condition")
    /\ calls' = Append(Front(calls), [at |-> "then", reg |-> wanted.reg,
                                      jump |-> Len(current.code) + 1,
                                      taken |-> ~IsFalsey(wanted.val)])
    /\ AskStatement(Emitted(current, <<"JUMP_IF_FALSE", wanted.reg, 0>>))
    /\ UNCHANGED meaning

\* mutant: the jump over the first branch lands on the jump over the second
AfterThenEarly ==
    /\ wanted.is = "done"
    /\ Compiling
    /\ At = "then"
    /\ LET jump == Len(current.code) + 1
       IN  /\ calls' = Append(Front(calls), [at |-> "else", reg |-> Caller.reg,
                                             jump |-> jump, taken |-> Caller.taken])
           /\ Become(Emitted(patchJump(current, Caller.jump), <<"JUMP", 0, 0>>))
    /\ wanted' \in {[is |-> "statement"], [is |-> "done"]}
    /\ UNCHANGED <<hadError, nodes, meaning>>
AfterThen ==
    /\ wanted.is = "done"
    /\ Compiling
    /\ At = "then"
    /\ LET jump == Len(current.code) + 1
       IN  /\ calls' = Append(Front(calls), [at |-> "else", reg |-> Caller.reg,
                                             jump |-> jump, taken |-> Caller.taken])
           /\ Become(patchJump(Emitted(current, <<"JUMP", 0, 0>>), Caller.jump))
    /\ wanted' \in {[is |-> "statement"], [is |-> "done"]}
    /\ UNCHANGED <<hadError, nodes, meaning>>

AfterElse ==
    /\ wanted.is = "done"
    /\ Compiling
    /\ At = "else"
    /\ Done(freeReg(patchJump(current, Caller.jump), Caller.reg))
    /\ Return
    /\ UNCHANGED <<nodes, meaning>>

\* compile() and interpret(), which makes a frame at the bottom of the stack.
Run ==
    /\ wanted.is = "statement"
    /\ calls = <<>>
    /\ phase = "compiling" /\ ~hadError
    /\ phase' = "running"
    /\ Become(Emitted(current, <<"RETURN", 0>>))
    /\ vm' = [ip |-> 1, regs |-> [r \in 0..(MaxReg + MaxArgs) |-> Zero],
              globals |-> Empty, out |-> <<>>]
    /\ order' \in Orders
    /\ UNCHANGED <<calls, wanted, hadError, nodes, meaning, misread>>

\* Once the flag is up, the rest of the pass can only reject the program.
Reject ==
    /\ phase = "compiling" /\ hadError
    /\ phase' = "rejected"
    /\ UNCHANGED <<compilers, calls, wanted, hadError, nodes, meaning, vm, order, misread>>

-----------------------------------------------------------------------------
(* run(): one action is one instruction. *)

Fetched == current.code[vm.ip]
R(i) == vm.regs[i]

Fetches == phase = "running" /\ vm.ip \in DOMAIN current.code
Otherwise == UNCHANGED <<compilers, calls, wanted, hadError, nodes, meaning, order>>
Executes(op) == Fetches /\ Fetched[1] = op /\ Otherwise

\* emitOpBC and patchJump put the high byte of an index or a distance into B and the
\* low one into C, of two bytes each.  The machine that is built takes B for the low byte.
Byte == 256
High(n) == (n \div Byte) % Byte
Low(n) == n % Byte
GET_BC(n) ==
    IF order = "low first" THEN High(n) + Byte * Low(n) ELSE Byte * High(n) + Low(n)
Misread(n) == GET_BC(n) # n

Sets(reg, val) ==
    /\ vm' = [vm EXCEPT !.ip = @ + 1, !.regs[reg] = val]
    /\ UNCHANGED <<phase, misread>>
Skips(n) ==
    /\ vm' = [vm EXCEPT !.ip = @ + 1 + GET_BC(n)]
    /\ misread' = (misread \/ Misread(n))
    /\ UNCHANGED phase
Outputs(effect) == [vm EXCEPT !.ip = @ + 1, !.out = Append(@, effect)]

\* The constant that an instruction names, when its index is read as it was written.
Named == ~Misread(Fetched[4])

OP_LOAD == Executes("LOAD") /\ Sets(Fetched[2], Fetched[3])
OP_LOAD_CONST == Executes("LOAD_CONST") /\ Named /\ Sets(Fetched[2], Fetched[3])
OP_MOVE == Executes("MOVE") /\ Sets(Fetched[2], R(Fetched[3]))
OP_SUB == Executes("SUB") /\ Sets(Fetched[2], <<"-", R(Fetched[3]), R(Fetched[4])>>)
OP_READ == Executes("READ") /\ Sets(Fetched[2], <<"*", R(Fetched[3])>>)
OP_CLOSURE == Executes("CLOSURE") /\ Named /\ Sets(Fetched[2], <<"closure", Fetched[3]>>)
OP_GET_GLOBAL ==
    Executes("GET_GLOBAL") /\ Named /\ Sets(Fetched[2], vm.globals[Fetched[3]])

OP_SYSCALL ==
    /\ Executes("SYSCALL")
    /\ LET id == Fetched[3]
       IN  vm' = [Outputs(<<"syscall">> \o [i \in 1..(Fetched[4] + 1) |-> R(id + i - 1)])
                     EXCEPT !.regs[Fetched[2]] = Reply]
    /\ UNCHANGED <<phase, misread>>

OP_PRINT ==
    /\ Executes("PRINT")
    /\ vm' = Outputs(R(Fetched[2]))
    /\ UNCHANGED <<phase, misread>>

OP_DEFINE_GLOBAL ==
    /\ Executes("DEFINE_GLOBAL")
    /\ Named
    /\ vm' = [vm EXCEPT !.ip = @ + 1, !.globals = With(@, Fetched[3], R(Fetched[2]))]
    /\ UNCHANGED <<phase, misread>>

OP_JUMP == Executes("JUMP") /\ Skips(Fetched[3])
OP_JUMP_IF_FALSE ==
    /\ Executes("JUMP_IF_FALSE")
    /\ Skips(IF IsFalsey(R(Fetched[2])) THEN Fetched[3] ELSE 0)

\* Any other index is that of another constant or of what lies behind the table: what
\* the machine does with it is left open.
Strays ==
    /\ Fetches
    /\ Fetched[1] \in Indexed /\ ~Named
    /\ phase' = "strayed"
    /\ misread' = TRUE
    /\ Otherwise
    /\ UNCHANGED vm

OP_RETURN ==
    /\ Executes("RETURN")
    /\ phase' = "halted"
    /\ UNCHANGED <<vm, misread>>

-----------------------------------------------------------------------------
Init ==
    /\ phase = "compiling"
    /\ compilers = <<NewCompiler(0)>>
    /\ calls = <<>>
    /\ wanted = [is |-> "statement"]
    /\ hadError = FALSE
    /\ nodes = 0
    /\ meaning = [scopes |-> <<>>, globals |-> Empty, out |-> <<>>]
    /\ vm = [ip |-> 0, regs |-> Empty, globals |-> Empty, out |-> <<>>]
    /\ order = "none"
    /\ misread = FALSE

CompileExpr ==
    \/ \E v \in Literals : Literal(v)
    \/ \E x \in Names : Variable(x)
    \/ Binary \/ AfterLeft \/ AfterRight
    \/ Unary \/ AfterOperand
    \/ \E n \in 0..MaxArgs : Syscall(n)
    \/ AfterIdAlone \/ AfterId \/ AfterArgument
    \/ Uncompiled

CompileStmt ==
    \/ PrintStmt \/ AfterPrint
    \/ \E x \in Names : VarGlobal(x) \/ VarGlobalAlone(x) \/ Function(x)
    \/ \E x \in Names, size \in Sizes : VarLocal(x, size) \/ VarLocalAlone(x, size)
    \/ AfterVarGlobal \/ AfterVarLocal
    \/ Block \/ CloseBlock \/ CloseFunction
    \/ If \/ AfterCondition \/ AfterThen \/ AfterElse

Execute ==
    \/ OP_LOAD \/ OP_LOAD_CONST \/ OP_MOVE \/ OP_SUB \/ OP_READ \/ OP_CLOSURE
    \/ OP_DEFINE_GLOBAL \/ OP_GET_GLOBAL \/ OP_SYSCALL \/ OP_PRINT
    \/ OP_JUMP \/ OP_JUMP_IF_FALSE \/ Strays \/ OP_RETURN

Next == CompileExpr \/ CompileStmt \/ Run \/ Reject \/ Execute

Spec == Init /\ [][Next]_vars

-----------------------------------------------------------------------------
(* What compiled code must be.                                             *)

\* The activations of the current compiler.
Mine == {i \in DOMAIN calls : \A j \in i..Len(calls) : calls[j].at # "function"}

\* The registers that activation i has filled and not yet used. Those of the arguments
\* behind the first are its own only while no later argument asks for a register.
Filled(i) ==
    LET frame == calls[i]
    IN  CASE frame.at = "right" -> {frame.reg}
          [] frame.at = "argument" ->
               {frame.id} \union {frame.start + k - 2 :
                                    k \in {n \in 2..Len(frame.vals) : n = 2 \/ i = Len(calls)}}
          [] OTHER -> {}

\* The variables whose block is open and that were given a value; a void never is.
Held == {i \in DOMAIN current.locals :
            LET x == current.locals[i].name
            IN  Scope(x) # {} /\ ValueOf(x) # Unset}

\* A register that is about to be written holds no operand, no argument and no
\* variable that the program may still read, and no two of these share one:
\* allocReg, freeReg and the packing of small variables agree on what is free
\* (compiler.c:42-71).
LiveApart ==
    phase = "compiling" /\ ~hadError =>
    LET locals == {current.locals[i].reg : i \in Held}
        filled == UNION {Filled(i) : i \in Mine}
    IN  /\ Cardinality(locals) = Cardinality(Held)
        /\ locals \intersect filled = {}
        /\ \A i, j \in Mine : i # j => Filled(i) \intersect Filled(j) = {}
        /\ wanted.is = "expression" => wanted.dst \notin locals \union filled

\* A machine that has read every index and every distance it came to as it was written
\* prints and calls what the text of the program says, in its order, branches included;
\* what the text does not say may be anything. The machine that is built does so as far
\* as it needs only the first constant of the table and no branch is passed over; of what
\* it does behind an operand that it reads otherwise, nothing is said here.
PrintsAsWritten ==
    phase = "halted" /\ ~misread =>
        /\ Len(vm.out) = Len(meaning.out)
        /\ \A i \in DOMAIN vm.out : meaning.out[i] \in {vm.out[i], Unset}

\* Operand BC, "Formed by combining the bits of the B and C slots into a single
\* unsigned 16-bit integer", "allows jumps of up to 65,535 instructions forward or
\* backward in the bytecode" (Documentation/part-2/11_bytecode_specification.md:42,
\* :44): what the machine jumps to is code.
JumpsInside == phase = "running" => vm.ip \in DOMAIN current.code

-----------------------------------------------------------------------------
\* Names are interchangeable, for TLC.
Renamings == Permutations(Names)
=============================================================================
