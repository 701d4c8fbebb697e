------------------------------ MODULE Machine ------------------------------
(***************************************************************************)
(* Calls, captured variables and effects of the virtual machine:           *)
(* src/core/vm.c (OP_CALL .. OP_RETURN, OP_HANDLE .. OP_RESUME), the       *)
(* continuations of src/effect.c and the entry of src/core/vm_interpret.c. *)
(* What the instructions compute is left to module Compiler; here a        *)
(* register holds a member of Data or Object, any managed object.          *)
(***************************************************************************)
EXTENDS Naturals, Integers, Sequences, FiniteSets, SequencesExt

CONSTANTS Data, Object,   \* what registers hold
          Registers,      \* bound: registers a function uses, in place of 250
          FramesMax,      \* FRAMES_MAX
          StackMax,       \* STACK_MAX
          Effects,        \* names of effects
          MaxPrograms, MaxWork   \* bounds

ASSUME MachineAssumption == /\ Object \notin Data
                            /\ Registers \in Nat \ {0} /\ FramesMax \in Nat \ {0}
                            /\ StackMax \in Nat /\ StackMax >= FramesMax * Registers

VARIABLES stack, stackTop, frames,
          closures,   \* ObjClosure: the upvalues each closure was given
          upvalues,   \* ObjUpvalue: where it points, and its own cell once it is closed
          open,       \* vm.openUpvalues, from the highest location down
          handlers,   \* the handler stack up to handlerCount
          continuation, \* the one captured last
          programs,   \* how many programs walia_interpret was given
          work,       \* and how much they did, of what is bounded
          variables,  \* what each captured variable holds, by its name (history)
          strayed,    \* the machine left something behind that it never clears (history)
          resumption  \* the registers a continuation left with and came back to (history)

machineVars == <<stack, stackTop, frames, closures, upvalues, open, handlers, continuation,
                 programs, work, variables, strayed, resumption>>

NoContinuation == [frames |-> <<>>, stack |-> <<>>, returnToReg |-> 0, left |-> <<>>]
Closed == -1

frame == Last(frames)
Slot(f, register) == f.slots + register
Window(f) == [r \in 1 .. Registers |-> stack[Slot(f, r - 1)]]

\* No two frames that captured variables have the same one.
NewId(index) == <<index, Cardinality(DOMAIN variables)>>

\* A store to R(register) of frame f; the variable of that register, if some closure
\* captured it, is meant to change with it.
Stored(f, register, value) ==
  /\ stack' = [stack EXCEPT ![Slot(f, register)] = value]
  /\ variables' = [v \in DOMAIN variables |->
                     IF v = <<f.id, register>> THEN value ELSE variables[v]]

MachineInit ==
  /\ stack = [i \in 0 .. StackMax - 1 |-> CHOOSE d \in Data : TRUE]
  /\ stackTop = 0 /\ frames = <<>> /\ closures = <<>> /\ upvalues = <<>> /\ open = <<>>
  /\ handlers = <<>> /\ continuation = NoContinuation /\ programs = 0 /\ work = 0
  /\ variables = [v \in {} |-> Object]
  /\ strayed = FALSE /\ resumption = [left |-> <<>>, found |-> <<>>]

-----------------------------------------------------------------------------
\* A text that does not parse or compile is dropped; otherwise its function is
\* pushed and its frame laid over the stack from the bottom. vm.stackTop is moved
\* by this push and by resumptions, and by nothing else.
walia_interpret(isCorrect) ==
  /\ frames = <<>> /\ ~strayed /\ programs < MaxPrograms
  /\ programs' = programs + 1 /\ UNCHANGED work
  /\ IF isCorrect
     THEN /\ stack' = [stack EXCEPT ![stackTop] = Object] /\ stackTop' = stackTop + 1
          /\ frames' = <<[closure |-> 0, slots |-> 0, returnToReg |-> 0,
                          id |-> NewId(0)]>>
     ELSE UNCHANGED <<stack, stackTop, frames>>
  /\ UNCHANGED <<closures, upvalues, open, handlers, continuation, variables, strayed, resumption>>

\* The loads, calls, closures, handlers and resumptions of all programs are bounded.
Works == work < MaxWork /\ work' = work + 1

\* runtimeError ends with resetStack; what was captured stays open.
runtimeError ==
  /\ strayed' = TRUE
  /\ stackTop' = 0 /\ frames' = <<>> /\ handlers' = <<>> /\ open' = <<>>
  /\ UNCHANGED <<stack, closures, upvalues, continuation, programs, variables, resumption>>

\* The machine gives up where it is: run returns or the process ends.
GivesUp ==
  /\ strayed' = TRUE
  /\ UNCHANGED <<stack, stackTop, frames, closures, upvalues, open, handlers, continuation,
                 programs, variables, resumption>>

OP_LOAD_CONST(a, value) ==
  /\ Works
  /\ Stored(frame, a, value)
  /\ UNCHANGED <<stackTop, frames, closures, upvalues, open, handlers, continuation, programs,
                 strayed, resumption>>

\* The registers from base + 1 on become the callee's; the compiler never leaves a
\* variable of the caller there.
OP_CALL(dest, base, closure) ==
  /\ Works
  /\ Slot(frame, base) + Registers < StackMax
  /\ \A r \in base + 1 .. Registers - 1 : <<frame.id, r>> \notin DOMAIN variables
  /\ IF Len(frames) = FramesMax THEN runtimeError
     ELSE /\ frames' = Append(frames, [closure |-> closure, slots |-> Slot(frame, base) + 1,
                                       returnToReg |-> dest, id |-> NewId(Len(frames))])
          /\ UNCHANGED <<stack, stackTop, closures, upvalues, open, handlers, continuation,
                         programs, variables, strayed, resumption>>

-----------------------------------------------------------------------------
\* How many open upvalues, from the highest down, lie at the location or above it: the
\* loops of captureUpvalue and closeUpvalues end at the first that does not.
Reaching(location) ==
  CHOOSE n \in 0 .. Len(open) :
    /\ \A k \in 1 .. n : upvalues[open[k]].location >= location
    /\ n < Len(open) => upvalues[open[n + 1]].location < location

\* mutant: the search passes the upvalue it looks for, and a second one is created
AboveOrAt(location) == SubSeq(open, 1, Reaching(location))

\* captureUpvalue: the open upvalues above the location, and the one at it.
Above(location) == SubSeq(open, 1, Reaching(location + 1))

Capture(location, variable) ==
  LET above == Above(location)
      rest == SubSeq(open, Len(above) + 1, Len(open))
      found == rest # <<>> /\ upvalues[Head(rest)].location = location
      created == Len(upvalues) + 1
  IN  IF found THEN /\ closures' = Append(closures, <<Head(rest)>>)
                    /\ UNCHANGED <<upvalues, open, variables>>
      ELSE /\ upvalues' = Append(upvalues, [location |-> location, closed |-> Object,
                                            of |-> variable])
           /\ open' = above \o <<created>> \o rest
           /\ closures' = Append(closures, <<created>>)
           /\ variables' = [v \in DOMAIN variables \cup {variable} |->
                              IF v = variable THEN stack[location] ELSE variables[v]]

\* A closure over one variable: a register of this frame or what this frame's own
\* closure captured. The closure itself goes to a global; its register is a
\* temporary that holds no variable, and is left out.
OP_CLOSURE(isLocal, index) ==
  /\ Works
  /\ IF isLocal THEN Capture(Slot(frame, index), <<frame.id, index>>)
     ELSE /\ frame.closure # 0 /\ closures' = Append(closures, closures[frame.closure])
          /\ UNCHANGED <<upvalues, open, variables>>
  /\ UNCHANGED <<stack, stackTop, frames, handlers, continuation, programs, strayed, resumption>>

UpvalueOf(f) == upvalues[closures[f.closure][1]]
Content(u) == IF u.location = Closed THEN u.closed ELSE stack[u.location]

OP_GET_UPVALUE(a) ==
  /\ frame.closure # 0
  /\ Stored(frame, a, Content(UpvalueOf(frame)))
  /\ UNCHANGED <<stackTop, frames, closures, upvalues, open, handlers, continuation, programs,
                 work, strayed, resumption>>

OP_SET_UPVALUE(a) ==
  LET u == UpvalueOf(frame)
      value == stack[Slot(frame, a)]
  IN  /\ frame.closure # 0
      /\ variables' = [variables EXCEPT ![u.of] = value]
      /\ IF u.location = Closed
         THEN /\ upvalues' = [upvalues EXCEPT ![closures[frame.closure][1]].closed = value]
              /\ UNCHANGED stack
         ELSE stack' = [stack EXCEPT ![u.location] = value] /\ UNCHANGED upvalues
      /\ UNCHANGED <<stackTop, frames, closures, open, handlers, continuation, programs, work,
                     strayed, resumption>>

\* closeUpvalues(frame->slots), then the result goes to the caller. A handler
\* installed by the frame that returns stays on the handler stack.
OP_RETURN(a) ==
  LET result == stack[Slot(frame, a)]
      reaching == Reaching(frame.slots)
      closing == {open[i] : i \in 1 .. reaching}
  IN  /\ upvalues' = [u \in DOMAIN upvalues |->
                        IF u \in closing
                        THEN [upvalues[u] EXCEPT !.closed = stack[upvalues[u].location],
                                                 !.location = Closed]
                        ELSE upvalues[u]]
      /\ open' = SubSeq(open, reaching + 1, Len(open))
      /\ frames' = Front(frames)
      /\ IF Len(frames) = 1 THEN UNCHANGED <<stack, variables>>
         ELSE Stored(frames[Len(frames) - 1], frame.returnToReg, result)
      /\ strayed' = (\E i \in DOMAIN handlers : handlers[i].frameIndex >= Len(frames))
      /\ UNCHANGED <<stackTop, closures, handlers, continuation, programs, work, resumption>>

-----------------------------------------------------------------------------
\* frameIndex counts from 1 here; resumeIp is code and left out.
OP_HANDLE(effect) ==
  /\ Works
  /\ handlers' = Append(handlers, [effectName |-> effect, frameIndex |-> Len(frames),
                                   stackBase |-> frame.slots])
  /\ UNCHANGED <<stack, stackTop, frames, closures, upvalues, open, continuation, programs,
                 variables, strayed, resumption>>

\* captureContinuation: the frames above the handler's, their slots made relative to
\* its base, and the stack from there to stackTop.
captureContinuation(handler, returnToReg) ==
  LET above == SubSeq(frames, handler.frameIndex + 1, Len(frames))
  IN  [frames |-> [i \in DOMAIN above |-> [above[i] EXCEPT !.slots = @ - handler.stackBase]],
       stack |-> [i \in 1 .. stackTop - handler.stackBase |-> stack[handler.stackBase + i - 1]],
       returnToReg |-> returnToReg,
       left |-> [i \in DOMAIN above |-> Window(above[i])]]

\* vm.handlerCount = i, counting from 0: the handler that answers goes as well.
HandlersBelow(i) == SubSeq(handlers, 1, i - 1)

\* The frames above the handler's are dropped with their upvalues still open. The
\* continuation is put in register 0 of the frame that is left.
OP_PERFORM(effect, dest) ==
  LET answering == {i \in DOMAIN handlers : handlers[i].effectName = effect}
      i == CHOOSE j \in answering : \A k \in answering : k <= j
      handler == handlers[i]
  IN  /\ Works
      /\ IF answering = {} THEN GivesUp
         ELSE IF stackTop < handler.stackBase THEN GivesUp   \* a negative size
         ELSE /\ continuation' = captureContinuation(handler, dest)
              /\ handlers' = HandlersBelow(i)
              /\ frames' = SubSeq(frames, 1, handler.frameIndex)
              /\ Stored(frame, 0, Object)
              /\ strayed' = \E u \in Range(open) :
                              \E f \in handler.frameIndex + 1 .. Len(frames) :
                                upvalues[u].of[1] = frames[f].id
              /\ UNCHANGED <<stackTop, closures, upvalues, open, programs, resumption>>

\* The captured slice is laid on stackTop, which lies in the registers of the frames
\* that run; a resumption that would not fit is reported and does nothing.
OP_RESUME(value) ==
  LET count == Len(frames) + Len(continuation.frames)
      copied == [s \in DOMAIN stack |->
                   IF s \in stackTop .. stackTop + Len(continuation.stack) - 1
                   THEN continuation.stack[s - stackTop + 1] ELSE stack[s]]
      resumed == frames \o [i \in DOMAIN continuation.frames |->
                              [continuation.frames[i] EXCEPT !.slots = @ + stackTop,
                                                             !.id = NewId(Len(frames) + i - 1)]]
      found(s) == [i \in DOMAIN continuation.frames |->
                     [r \in 1 .. Registers |-> s[Slot(resumed[Len(frames) + i], r - 1)]]]
  IN  /\ continuation # NoContinuation
      /\ Works
      /\ IF count >= FramesMax
         THEN UNCHANGED <<stack, stackTop, frames, variables, strayed, resumption>>
         ELSE /\ stack' = [copied EXCEPT ![Slot(Last(resumed), continuation.returnToReg)] = value]
              /\ stackTop' = stackTop + Len(continuation.stack)
              /\ frames' = resumed
              /\ variables' = [v \in DOMAIN variables |->
                                 IF v = <<Last(resumed).id, continuation.returnToReg>>
                                 THEN value ELSE variables[v]]
              /\ strayed' = \E u \in Range(open) : upvalues[u].location >= stackTop
              /\ resumption' = [left |-> continuation.left, found |-> found(copied)]
      /\ UNCHANGED <<closures, upvalues, open, handlers, continuation, programs>>

\* What happens after the machine strayed is not followed.
Running(A) == ~strayed /\ frames # <<>> /\ A

CallNext ==
  \/ \E isCorrect \in BOOLEAN : walia_interpret(isCorrect)
  \/ \E a \in 0 .. Registers - 1 :
       \/ \E value \in Data : Running(OP_LOAD_CONST(a, value))
       \/ Running(OP_RETURN(a))
       \/ \E base \in a .. Registers - 1 :
            \E c \in 0 .. Len(closures) : Running(OP_CALL(a, base, c))

ClosureNext ==
  \E a \in 0 .. Registers - 1 :
    \/ \E isLocal \in BOOLEAN : Running(OP_CLOSURE(isLocal, a))
    \/ Running(OP_GET_UPVALUE(a)) \/ Running(OP_SET_UPVALUE(a))

EffectNext ==
  \/ \E effect \in Effects :
       \/ Running(OP_HANDLE(effect))
       \/ \E a \in 0 .. Registers - 1 : Running(OP_PERFORM(effect, a))
  \/ \E value \in Data : Running(OP_RESUME(value))

-----------------------------------------------------------------------------
\* A captured variable is one variable: whoever reads it, the function it belongs to
\* or any closure over it, while the function runs or after it returned and its
\* registers went to others, finds what was last written to it. It holds as long as
\* no effect abandons a frame whose variables were captured (vm.c:308).
VariablesShared ==
  ~strayed => \A u \in DOMAIN upvalues : Content(upvalues[u]) = variables[upvalues[u].of]

\* Handlers nest as the frames do: each one's frame is there, and is the one it was
\* installed by, whatever calls, returns, performs and resumptions came since.
HandlersNest ==
  ~strayed => \A i \in DOMAIN handlers :
                /\ handlers[i].frameIndex <= Len(frames)
                /\ handlers[i].stackBase = frames[handlers[i].frameIndex].slots
                /\ \A j \in 1 .. i : handlers[j].frameIndex <= handlers[i].frameIndex

\* "This slice (including call frames and registers) is lifted from the volatile
\* stack" (Documentation/part-1/07_algebraic_effects.md:46): a resumed frame finds
\* its registers as it left them.
RegistersPreserved == resumption.found = resumption.left
=============================================================================
