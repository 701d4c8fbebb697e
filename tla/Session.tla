------------------------------ MODULE Session ------------------------------
(***************************************************************************)
(* One run of the program: src/main.c from boot to shutdown, the life of    *)
(* the machine it starts (initVM, interpret, freeVM of src/core/vm.c), the *)
(* interned names (src/core/object.c), the suite of src/test_runner.c and   *)
(* the counters of src/telemetry.c. What an instruction does is module     *)
(* Compiler's: a program here defines names, reads them, and goes wrong.    *)
(* An instruction names a constant by its place in two bytes, which the     *)
(* built machine takes in the other order (opcode.h:61, compiler.c:78):     *)
(* "byteOrder" is how they are taken, and what a place beyond the constants *)
(* holds is anything, or the end of the process.                            *)
(***************************************************************************)
EXTENDS Integers, Sequences, SequencesExt

CONSTANTS Scripts,      \* programs: [script, tests], each function a sequence of instructions
          MagicNames,   \* those of the meta-object protocol
          NativeNames,  \* those of initNatives
          StackSlots,   \* STACK_MAX
          ByteOrders    \* how two bytes are taken: "high first", as they are written, "low first"

VARIABLES stage,        \* of runWalia
          testMode, telemetryEnabled,  \* config
          mapped,       \* how often the heap was mapped
          interned,      \* vm.strings: the object that stands for each text
          objectsMade,  \* string objects so far: an object is its number
          compiled,     \* the functions, each name in them an object
          globals,      \* vm.globals, by object
          running,      \* vm.frames: [function, ip]
          executing,    \* between a call of run and its return
          pushed,       \* vm.stackTop
          verdicts,     \* what the suite announced: [test, passed]
          gauge,        \* the counter METRIC_STACK_DEPTH
          exported,     \* and what exportMetrics printed of it, -1 before
          checkpoints, pagerOpen, exitCode,
          stored,       \* what the program last defined each name to be (history)
          answer,       \* what the name read last holds by stored, and what was found (history)
          returned,     \* functions whose own return was executed (history)
          byteOrder,    \* one of ByteOrders
          misread,      \* a constant was looked for where it does not lie (history)
          framesLeft    \* an error was returned with the frames left where they were (history)

machineryVars == <<mapped, interned, objectsMade, compiled, globals, running, executing, pushed>>
reportVars == <<verdicts, gauge, exported, checkpoints, pagerOpen, exitCode>>
heardVars == <<stored, answer, returned>>
astrayVars == <<byteOrder, misread, framesLeft>>
sessionVars == <<stage, testMode, telemetryEnabled, machineryVars, reportVars, heardVars, astrayVars>>

None == [name \in {} |-> 0]
Unset == "uninitialized"   \* the local that tableGet did not write

\* main: the flags, then runWalia.
SessionInit ==
  /\ stage = "boot" /\ testMode \in BOOLEAN /\ telemetryEnabled \in BOOLEAN
  /\ mapped = 0 /\ interned = None /\ objectsMade = 0 /\ compiled = <<>> /\ globals = None
  /\ running = <<>> /\ executing = FALSE /\ pushed = 0 /\ verdicts = <<>> /\ gauge = 0 /\ exported = -1
  /\ checkpoints = 0 /\ pagerOpen = FALSE /\ exitCode = "none"
  /\ stored = None /\ answer = [stored |-> Unset, found |-> Unset] /\ returned = {}
  /\ byteOrder \in ByteOrders /\ misread = FALSE /\ framesLeft = FALSE

Exit(code) == stage' = "ended" /\ exitCode' = code

\* walia_boot, the first time and whenever it is asked again.
Mounts == mapped' = IF mapped = 0 THEN 1 ELSE mapped

\* copyString: the object the table has for the text, or a new one that is put there.
copyString(table, text) ==
  IF text \in DOMAIN table.strings THEN table
  ELSE [table EXCEPT !.made = @ + 1,
                     !.strings = [t \in DOMAIN @ \cup {text} |->
                                    IF t = text THEN table.made + 1 ELSE @[t]]]

Interned(table, texts) == FoldLeft(copyString, table, SetToSeq(texts))

-----------------------------------------------------------------------------
\* The heap is mapped before whatever allocates from it; an assessment that finds
\* something critical ends the run.
Boot ==
  /\ stage = "boot"
  /\ Mounts
  /\ \/ stage' = "compile" /\ UNCHANGED exitCode
     \/ Exit("EXIT_COMPILE_ERROR")
  /\ UNCHANGED <<testMode, telemetryEnabled, interned, objectsMade, compiled, globals, running, executing, pushed,
                 verdicts, gauge, exported, checkpoints, pagerOpen, heardVars, astrayVars>>

\* An instruction as compiled: the object in place of the text, which stays beside it,
\* and the place of its first constant. A definition has two, its value and its name.
Emit(chunk, instruction) ==
  IF instruction.op \in {"fail", "stop"} THEN [chunk EXCEPT !.code = Append(@, instruction)]
  ELSE LET table == copyString(chunk, instruction.text)
       IN  [table EXCEPT !.code = Append(@, instruction @@ [name |-> table.strings[instruction.text],
                                                            place |-> chunk.constants]),
                         !.constants = @ + (IF instruction.op = "define" THEN 2 ELSE 1)]

CompileFunction(script, function) ==
  LET chunk == FoldLeft(Emit, [script EXCEPT !.code = <<>>, !.constants = 0], function)
  IN  [chunk EXCEPT !.functions = Append(@, chunk.code)]

\* compile interns the names it meets and leaves objects in their place.
Compile(program, isCorrect) ==
  LET empty == [strings |-> interned, made |-> objectsMade, code |-> <<>>, constants |-> 0,
                functions |-> <<>>]
      chunk == FoldLeft(CompileFunction, empty, <<program.script>> \o program.tests)
  IN  /\ stage = "compile"
      /\ IF isCorrect THEN stage' = "vm" /\ UNCHANGED exitCode ELSE Exit("EXIT_COMPILE_ERROR")
      /\ interned' = chunk.strings /\ objectsMade' = chunk.made /\ compiled' = chunk.functions
      /\ UNCHANGED <<testMode, telemetryEnabled, mapped, globals, running, executing, pushed, verdicts, gauge,
                     exported, checkpoints, pagerOpen, heardVars, astrayVars>>

\* initVM: an empty machine; its table of strings is a new one, so that what the
\* compiler interned is found by its object only.
initVM ==
  LET table == Interned([strings |-> None, made |-> objectsMade], MagicNames)
  IN  /\ stage = "vm" /\ stage' = "natives"
      /\ Mounts
      /\ running' = <<>> /\ pushed' = 0 /\ globals' = None
      /\ interned' = table.strings /\ objectsMade' = table.made
      /\ pagerOpen' = TRUE
      /\ UNCHANGED <<testMode, telemetryEnabled, executing, compiled, verdicts, gauge, exported, checkpoints,
                     exitCode, heardVars, astrayVars>>

\* initNatives: defineNative interns the name and stores the native under the object.
initNatives ==
  LET table == Interned([strings |-> interned, made |-> objectsMade], NativeNames)
  IN  /\ stage = "natives" /\ stage' = "execute"
      /\ interned' = table.strings /\ objectsMade' = table.made
      /\ globals' = [o \in DOMAIN globals \cup {table.strings[n] : n \in NativeNames} |->
                       IF o \in DOMAIN globals THEN globals[o] ELSE "native"]
      /\ UNCHANGED <<testMode, telemetryEnabled, mapped, compiled, running, executing, pushed, reportVars,
                     heardVars, astrayVars>>

-----------------------------------------------------------------------------
recordMetric(depth) == gauge' = IF telemetryEnabled THEN depth ELSE gauge

\* interpret: the closure is pushed, and never popped, its frame is the one on top. A
\* stack that is full ends the process.
interpret(f) ==
  /\ IF pushed >= StackSlots THEN Exit("EXIT_FAILURE") /\ UNCHANGED <<running, executing, pushed, gauge>>
     ELSE /\ pushed' = pushed + 1 /\ executing' = TRUE
          /\ running' = Append(running, [function |-> f, ip |-> 1])
          /\ recordMetric(Len(running) + 1)
          /\ UNCHANGED <<stage, exitCode>>
  /\ UNCHANGED <<testMode, telemetryEnabled, mapped, interned, objectsMade, compiled, globals, verdicts,
                 exported, checkpoints, pagerOpen, heardVars, astrayVars>>

\* The script, or each named function among its constants: a suite runs those alone.
ToRun == IF testMode THEN 2 .. Len(compiled) ELSE {1}
NextUp == 1 + Len(verdicts) + (IF testMode THEN 1 ELSE 0)
Start == stage = "execute" /\ NextUp \in ToRun /\ ~executing /\ interpret(NextUp)

Top == Last(running)
Code == compiled[Top.function]
Instruction == Code[Top.ip]
StepsOn == running' = [running EXCEPT ![Len(running)].ip = @ + 1]
Fetches(op) == executing /\ Top.ip <= Len(Code) /\ Instruction.op = op

\* GET_BC of two bytes that were written high byte first.
GET_BC(place) == IF byteOrder = "high first" THEN place ELSE 256 * (place % 256) + place \div 256
Right(place) == GET_BC(place) = place

\* What run takes for the name, and for the value, of the instruction.
NamesRead(place) == IF Right(place) THEN {Instruction.name} ELSE 1..objectsMade
ValuesRead(place) == IF Right(place) THEN {Instruction.value} ELSE {Instruction.value, Unset}

DefineGlobal ==
  /\ Fetches("define")
  /\ \E value \in ValuesRead(Instruction.place), name \in NamesRead(Instruction.place + 1) :
       globals' = [o \in DOMAIN globals \cup {name} |-> IF o = name THEN value ELSE globals[o]]
  /\ stored' = [n \in DOMAIN stored \cup {Instruction.text} |->
                  IF n = Instruction.text THEN Instruction.value ELSE stored[n]]
  /\ misread' = (misread \/ ~Right(Instruction.place) \/ ~Right(Instruction.place + 1))
  /\ StepsOn
  /\ UNCHANGED <<stage, executing, testMode, telemetryEnabled, mapped, interned, objectsMade, compiled, pushed,
                 reportVars, answer, returned, byteOrder, framesLeft>>

\* A name that nothing stored leaves the local v as it was: whatever lay there.
GetGlobal ==
  /\ Fetches("get")
  /\ \E name \in NamesRead(Instruction.place) :
       answer' = [stored |-> IF Instruction.text \in DOMAIN stored THEN stored[Instruction.text] ELSE Unset,
                  found |-> IF name \in DOMAIN globals THEN globals[name] ELSE Unset]
  /\ misread' = (misread \/ ~Right(Instruction.place))
  /\ StepsOn
  /\ UNCHANGED <<stage, executing, testMode, telemetryEnabled, mapped, interned, objectsMade, compiled, globals,
                 pushed, reportVars, stored, returned, byteOrder, framesLeft>>

\* What lies where no constant does is used as a pointer.
Crash ==
  /\ executing /\ Top.ip <= Len(Code) /\ Instruction.op \in {"define", "get"}
  /\ ~Right(Instruction.place + (IF Instruction.op = "define" THEN 1 ELSE 0))
  /\ Exit("crash") /\ executing' = FALSE /\ misread' = TRUE
  /\ UNCHANGED <<testMode, telemetryEnabled, mapped, interned, objectsMade, compiled, globals, running, pushed,
                 verdicts, gauge, exported, checkpoints, pagerOpen, heardVars, byteOrder, framesLeft>>

\* A suite goes on with the next function, a script ends the run there.
Announce(passed) ==
  /\ executing' = FALSE
  /\ verdicts' = Append(verdicts, [test |-> NextUp, passed |-> passed])
  /\ IF testMode \/ passed THEN UNCHANGED <<stage, exitCode>> ELSE Exit("EXIT_RUNTIME_ERROR")

resetStack == running' = <<>> /\ pushed' = 0

\* An instruction that cannot be executed: runtimeError, and run returns.
Fails ==
  /\ Fetches("fail")
  /\ resetStack
  /\ Announce(FALSE)
  /\ UNCHANGED <<testMode, telemetryEnabled, mapped, interned, objectsMade, compiled, globals, gauge,
                 exported, checkpoints, pagerOpen, heardVars, astrayVars>>

\* A call of what cannot be called, a property nobody has, an effect nobody handles: run
\* returns the error and leaves its frames for the next function to return into.
FailsSilently ==
  /\ Fetches("stop")
  /\ StepsOn
  /\ framesLeft' = TRUE
  /\ Announce(FALSE)
  /\ UNCHANGED <<testMode, telemetryEnabled, mapped, interned, objectsMade, compiled, globals, pushed, gauge,
                 exported, checkpoints, pagerOpen, heardVars, byteOrder, misread>>

\* OP_RETURN: run returns with its last frame, or goes on in the one below.
Returns ==
  /\ executing /\ Top.ip > Len(Code)
  /\ running' = Front(running) /\ recordMetric(Len(running) - 1)
  /\ returned' = returned \cup {Top.function}
  /\ IF Len(running) = 1 THEN Announce(TRUE) ELSE UNCHANGED <<executing, verdicts, stage, exitCode>>
  /\ UNCHANGED <<testMode, telemetryEnabled, mapped, interned, objectsMade, compiled, globals, pushed,
                 exported, checkpoints, pagerOpen, stored, answer, astrayVars>>

\* The end of runWalia: a suite that failed exits before it; otherwise the counters
\* are printed, freeVM makes its checkpoint and the pager is closed.
Shutdown ==
  /\ stage = "execute" /\ ~executing /\ NextUp \notin ToRun
  /\ IF testMode /\ \E i \in DOMAIN verdicts : ~verdicts[i].passed
     THEN Exit("EXIT_COMPILE_ERROR") /\ UNCHANGED <<exported, checkpoints, pagerOpen, interned, globals>>
     ELSE /\ Exit("EXIT_SUCCESS")
          /\ exported' = IF telemetryEnabled THEN gauge ELSE exported
          /\ checkpoints' = checkpoints + 1
          /\ interned' = None /\ globals' = None
          /\ pagerOpen' = FALSE
  /\ UNCHANGED <<testMode, telemetryEnabled, mapped, objectsMade, compiled, running, executing, pushed, verdicts,
                 gauge, heardVars, astrayVars>>

SessionNext ==
  \/ Boot \/ (\E program \in Scripts, isCorrect \in BOOLEAN : Compile(program, isCorrect))
  \/ initVM \/ initNatives
  \/ Start \/ DefineGlobal \/ GetGlobal \/ Crash \/ Fails \/ FailsSilently \/ Returns \/ Shutdown

-----------------------------------------------------------------------------
\* PASS is said of a test only if its own code ran to its return, and is said of every
\* such test until an error leaves its frames behind, into which the next test then
\* returns (test_runner.c:47, vm.c:60, 278, 283, 308); a run that ends well left no frame,
\* says so in its counters, and made its checkpoint. A program that looked for each of
\* its constants where it lies reads under a name what it stored there last, though its
\* names were interned before the machine had its table (vm.c:118, main.c:125).
SessionSound ==
  /\ \A i \in DOMAIN verdicts :
       /\ verdicts[i].passed => verdicts[i].test \in returned
       /\ ~framesLeft /\ verdicts[i].test \in returned => verdicts[i].passed
  /\ exitCode = "EXIT_SUCCESS" =>
       /\ \A i \in DOMAIN verdicts : verdicts[i].passed
       /\ running = <<>> /\ exported \in {-1, 0}
       /\ checkpoints = 1 /\ mapped = 1 /\ ~pagerOpen
  /\ answer.stored # Unset /\ ~misread => answer.found = answer.stored
=============================================================================
