----------------------------- MODULE MCRuntime -----------------------------
(***************************************************************************)
(* What a running program leans on, and what its authors do: the scanner;   *)
(* the frames, captured variables and effects of the machine; the heap and *)
(* the collector; futures, timers and the event loop; the small structures *)
(* of the objects; the assistant. The scenario is chosen at the start and   *)
(* only its part takes steps.                                              *)
(***************************************************************************)
EXTENDS Machine, Heap, Async, Scanner, Objects, Tooling, Units, Session

CONSTANTS f1, f2, f3, Scenarios

VARIABLE scenario

asyncVars == <<futureVars, timerVars, eventVars>>
objectVars == <<chunkVars, digestVars, listVars, genomes, rippleVars, shapeVars, proxyVars>>
toolVars == <<versionVars, diffVars, ghostVars, ledgerVars, oracleVars, healVars, scanVars>>
physicsVars == <<unitVars, layoutVars>>
runtimeVars == <<scenario, machineVars, heapVars, asyncVars, scannerVars, objectVars, toolVars,
                 physicsVars, sessionVars>>

MCLists == {<<>>, <<f1>>, <<f1, f2>>, <<f1, f1>>, <<f1, "v">>, <<f2, f3>>, <<f1, f2, f3>>}

MCObjects == 1..4
MCTypes == [o \in MCObjects |-> CASE o = 1 -> "closure" [] o = 2 -> "upvalue"
                                  [] o = 3 -> "instance" [] OTHER -> "string"]
MCGraphs == {[all |-> MCObjects, type |-> MCTypes, refs |-> refs, roots |-> roots, strings |-> strings] :
               refs \in [MCObjects -> {{}, {2}, {3}, {1, 4}, {3, 4}}],
               roots \in {{1}, {2}}, strings \in {{}, {4}}}

MCChars == {"o", "r", "i", "f", "7", ".", "<", ">", "=", "/", "nl", " ", "q", "#"}
MCSources == UNION {[1..n -> MCChars] : n \in 0..3}
               \cup [1..4 -> {"i", "f", "7", "<", ">", ".", "nl", "q"}]
MCDoubles == [c \in {".", "<", ">", "="} |->
                CASE c = "." -> {"."} [] c = "=" -> {"=", ">"} [] OTHER -> {"="}]
MCKeywords == {<<"o", "r">>, <<"f", "o", "r">>}
MCShortWords == {<<"i", "f">>}

MCGet(n) == [op |-> "get", text |-> n]
MCDefine(n, v) == [op |-> "define", text |-> n, value |-> v]
MCFail == [op |-> "fail"]
MCStop == [op |-> "stop"]
MCScript(s, t) == [script |-> s, tests |-> t]
MCReads == {MCGet("x"), MCGet("clock"), MCDefine("x", "one"), MCDefine("x", "two")}
MCScripts == {MCScript(s, <<>>) : s \in [1..3 -> MCReads]
                                         \cup UNION {[1..n -> MCReads \cup {MCFail, MCStop, MCDefine("clock", "one")}] : n \in 0..2}}
               \cup {MCScript(<<MCDefine("x", "one")>>, t) :
                       t \in UNION {[1..n -> {<<>>, <<MCGet("x")>>, <<MCFail>>}] : n \in 0..4}
                              \cup UNION {[1..n -> {<<MCGet("x")>>, <<MCStop>>, <<MCStop, MCFail>>}] : n \in 1..3}}

MCTexts == UNION {[1..n -> {"a", "b", "nl"}] : n \in 0..3}

MCInstruction(op, a, b, c) == [op |-> op, a |-> a, b |-> b, c |-> c, value |-> "number", offset |-> c]
MCInstructions ==
  {[MCInstruction("OP_LOAD_CONST", r, 0, 0) EXCEPT !.value = v] : r \in 0..1, v \in {"number", "other"}}
    \cup {MCInstruction("OP_ADD", 0, 0, 1), MCInstruction("OP_RETURN", 0, 0, 0),
          MCInstruction("OP_JUMP_IF_FALSE", 0, 0, 1)}
MCPrograms == [1..2 -> MCInstructions]
                \cup {<<p, q, MCInstruction("OP_LOOP", 0, 0, back)>> :
                        p \in MCInstructions, q \in MCInstructions, back \in 1..3}

MCDocFiles == UNION {[1..n -> {"doc", "example", "declaration", "blank", "code"}] : n \in 1..4}
                \cup {<<"doc", "indented", "doc", "declaration">>,
                       FlattenSeq([i \in 1..4 |-> <<"example", "declaration">>])}
MCTokenFiles == UNION {[1..n -> {"fun", "name", "{", "}", "other"}] : n \in 1..3}
                  \cup {<<"fun", "name">> \o t : t \in [1..4 -> {"fun", "name", "{", "}"}]}

MCDimension(u) == CASE u = "m" -> <<1, 0>> [] u = "s" -> <<0, 1>> [] OTHER -> <<1, -2>>
MCAtomic == [u \in {"m", "s", "N"} |-> MCDimension(u)]
MCUnitTexts == UNION {[1..n -> {"m", "s", "N", "*", "/", "^", "2"}] : n \in 0..3}
                 \cup {<<"m", "/", "s", "^", "2">>, <<"m", "/", "s", "^", "-", "2">>,
                       <<"q", "*", "m">>, <<"m", "*", "s", "/", "N", "^", "2">>, <<"m", "/", "s", "/", "s">>}
MCTree(top, left) ==
  IF left = "leaf" THEN [p \in {<<>>, <<1>>, <<2>>} |-> IF p = <<>> THEN top ELSE "leaf"]
  ELSE [p \in {<<>>, <<1>>, <<2>>, <<1, 1>>, <<1, 2>>} |->
          IF p = <<>> THEN top ELSE IF p = <<1>> THEN left ELSE "leaf"]
MCTrees == {Leaf, MCTree("+", "leaf"), MCTree("==", "*"), MCTree("*", "/"), MCTree("%", "leaf")}
MCTypeSizes == [t \in {"Value", "u8", "u16", "u32", "void"} |->
                  CASE t = "Value" -> 8 [] t = "u8" -> 1 [] t = "u16" -> 2 [] t = "u32" -> 4 [] OTHER -> 0]

Init == /\ scenario \in Scenarios
        /\ MachineInit /\ FutureInit /\ TimerInit
        /\ EventInit /\ (scenario # "events" => use_uring)
        /\ IF scenario = "garbage" THEN HeapInit
           ELSE /\ heapNext = 0 /\ objects = {} /\ superblock = "blank" /\ session = "down"
                /\ blocks = NoBlocks /\ granted = NothingHeld /\ steps = 0
                /\ heap = [phase |-> "idle"]
        /\ IF scenario = "scanner" THEN ScannerInit
           ELSE source = <<>> /\ current = 0 /\ line = 1 /\ token = NoToken
        /\ initChunk /\ walia_hash_init /\ ListInit /\ GenomeInit /\ RippleInit /\ ShapeInit
        /\ ProxyInit /\ (scenario # "proxy" => proxy.target = "value")
        /\ VersionInit /\ LedgerInit /\ HealInit
        /\ SessionInit /\ (scenario # "session" => testMode /\ telemetryEnabled /\ byteOrder = "low first")
        /\ UnitsInit /\ (scenario # "layouts" => ~isUnion)
        /\ IF scenario = "diff" THEN DiffInit ELSE texts = <<<<>>, <<>>>> /\ hasHistory = FALSE /\ rows = <<>>
        /\ IF scenario = "ghost" THEN GhostInit
           ELSE program = <<>> /\ simStack = <<>> /\ ip = 0 /\ instructionsExecuted = 0 /\ status = "none"
        /\ IF scenario = "oracle" THEN OracleInit
           ELSE file = <<>> /\ lineRead = 0 /\ inDocBlock = FALSE /\ snippet = EmptySnippet /\ snippets = <<>>
                /\ suite = [verified |-> 0, passCount |-> 0]
        /\ IF scenario = "blocks" THEN ScanInit
           ELSE tokens = <<>> /\ read = 0 /\ phase = "outside" /\ braceDepth = 0 /\ bodyStart = 0 /\ regions = {}

MachineNext ==
  /\ \/ scenario \in {"closures", "effects"} /\ CallNext
     \/ scenario = "closures" /\ ClosureNext
     \/ scenario = "effects" /\ EffectNext
  /\ UNCHANGED <<heapVars, asyncVars, scannerVars, objectVars, toolVars, physicsVars, sessionVars>>

HeapNext ==
  /\ \/ scenario = "arena" /\ ArenaNext
     \/ scenario = "garbage" /\ collectGarbage
  /\ UNCHANGED <<machineVars, asyncVars, scannerVars, objectVars, toolVars, physicsVars, sessionVars>>

AsyncNext ==
  \/ scenario = "futures" /\ FutureNext /\ UNCHANGED <<timerVars, eventVars>>
  \/ scenario = "timers" /\ TimerNext /\ UNCHANGED <<futureVars, eventVars>>
  \/ scenario = "events" /\ EventNext /\ UNCHANGED <<futureVars, timerVars>>

ObjectNext ==
  \/ scenario = "chunk" /\ ChunkNext /\ UNCHANGED <<digestVars, listVars, genomes, rippleVars, shapeVars, proxyVars>>
  \/ scenario = "digest" /\ DigestNext /\ UNCHANGED <<chunkVars, listVars, genomes, rippleVars, shapeVars, proxyVars>>
  \/ scenario = "list" /\ ListNext /\ UNCHANGED <<chunkVars, digestVars, genomes, rippleVars, shapeVars, proxyVars>>
  \/ scenario = "genome" /\ GenomeNext /\ UNCHANGED <<chunkVars, digestVars, listVars, rippleVars, shapeVars, proxyVars>>
  \/ scenario = "ripple" /\ RippleNext /\ UNCHANGED <<chunkVars, digestVars, listVars, genomes, shapeVars, proxyVars>>
  \/ scenario = "shape" /\ ShapeNext /\ UNCHANGED <<chunkVars, digestVars, listVars, genomes, rippleVars, proxyVars>>
  \/ scenario = "proxy" /\ ProxyNext /\ UNCHANGED <<chunkVars, digestVars, listVars, genomes, rippleVars, shapeVars>>

ToolNext ==
  \/ scenario = "versions" /\ VersionNext
     /\ UNCHANGED <<diffVars, ghostVars, ledgerVars, oracleVars, healVars, scanVars>>
  \/ scenario = "diff" /\ DiffNext
     /\ UNCHANGED <<versionVars, ghostVars, ledgerVars, oracleVars, healVars, scanVars>>
  \/ scenario = "ghost" /\ GhostNext
     /\ UNCHANGED <<versionVars, diffVars, ledgerVars, oracleVars, healVars, scanVars>>
  \/ scenario = "ledger" /\ LedgerNext
     /\ UNCHANGED <<versionVars, diffVars, ghostVars, oracleVars, healVars, scanVars>>
  \/ scenario = "oracle" /\ OracleNext
     /\ UNCHANGED <<versionVars, diffVars, ghostVars, healVars, scanVars>>
  \/ scenario = "healer" /\ HealNext
     /\ UNCHANGED <<versionVars, diffVars, ghostVars, ledgerVars, oracleVars, scanVars>>
  \/ scenario = "blocks" /\ ScanNext
     /\ UNCHANGED <<versionVars, diffVars, ghostVars, ledgerVars, oracleVars, healVars>>

Next ==
  /\ UNCHANGED scenario
  /\ \/ MachineNext
     \/ HeapNext
     \/ AsyncNext /\ UNCHANGED <<machineVars, heapVars, scannerVars, objectVars, toolVars, physicsVars, sessionVars>>
     \/ scenario = "scanner" /\ ScannerNext
        /\ UNCHANGED <<machineVars, heapVars, asyncVars, objectVars, toolVars, physicsVars, sessionVars>>
     \/ ObjectNext /\ UNCHANGED <<machineVars, heapVars, asyncVars, scannerVars, toolVars, physicsVars, sessionVars>>
     \/ ToolNext /\ UNCHANGED <<machineVars, heapVars, asyncVars, scannerVars, objectVars, physicsVars, sessionVars>>
     \/ /\ \/ scenario = "units" /\ UnitsNext
           \/ scenario = "layouts" /\ LayoutNext
        /\ UNCHANGED <<machineVars, heapVars, asyncVars, scannerVars, objectVars, toolVars, sessionVars>>
     \/ scenario = "session" /\ SessionNext
        /\ UNCHANGED <<machineVars, heapVars, asyncVars, scannerVars, objectVars, toolVars, physicsVars>>

Spec == Init /\ [][Next]_runtimeVars

-----------------------------------------------------------------------------
(* Each of these joins properties stated, with the code they are about, in the *)
(* modules named; a part is looked at where it takes steps.                    *)

\* Machine: closures share the variables they capture while a frame is open and keep
\* them after it (vm.c:152), and the handlers installed nest as the frames do.
MachineSound ==
  /\ VariablesShared
  /\ scenario = "effects" => HandlersNest

\* Heap: the blocks of the arena tile it whatever is split and merged, and the
\* collector keeps what it can reach.
HeapSound ==
  /\ scenario = "arena" => ArenaTiled
  /\ scenario = "garbage" => ReachableKept

\* Async: a group completes when its last member does, a timer fires in the round it
\* is due, and an event reaches the future that waits for it.
AsyncExact ==
  /\ scenario = "futures" => JoinsExact
  /\ scenario = "timers" => TimersFire
  /\ scenario = "events" => EventsReachWaiters

\* Scanner, Objects and Units: tokens are the longest the text allows; line tables,
\* digests, iterators, genomes, ripples and shapes keep what was put into them, and who
\* observes a proxy is painted; units mean what they say and the bits of a layout are
\* its members' own.
ValuesExact ==
  /\ scenario = "scanner" => TokensExact
  /\ scenario = "chunk" => LinesExact
  /\ scenario = "digest" => DigestExact
  /\ scenario = "list" => IterationExact
  /\ scenario = "genome" => BredWithinRanges
  /\ scenario = "ripple" => RipplesExact
  /\ scenario = "shape" => ShapesExact
  /\ scenario = "proxy" => BindingsExact
  /\ scenario \in {"units", "layouts"} => UnitsSound

\* Tooling: what the assistant keeps of versions, and what it answers, adds up.
\* Session: verdicts, names and counters of a run are the program's own.
ToolsExact ==
  /\ scenario = "session" => SessionSound
  /\ scenario = "versions" => VersionsKept
  /\ scenario = "diff" => DiffExact
  /\ scenario = "ghost" => GhostBounded
  /\ scenario = "ledger" => ReportAddsUp
  /\ scenario = "oracle" => SnippetsExact
  /\ scenario = "healer" => CuresInPlace
  /\ scenario = "blocks" => RegionsAreBodies
=============================================================================
