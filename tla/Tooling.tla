------------------------------ MODULE Tooling ------------------------------
(***************************************************************************)
(* The assistant that watches over a project (src/tooling): the registry   *)
(* of symbols and the archive of their versions, the comparison of two     *)
(* versions, the ghost run of a program, the documented examples of a      *)
(* file, the blocks that are fingerprinted and the cures written back.     *)
(***************************************************************************)
EXTENDS Naturals, SequencesExt, FiniteSets

CONSTANTS Symbols, Files, Bodies,  \* names, paths and versions; a body stands for its hash
          MaxEdits,       \* bound: symbols handed to the registry
          Texts,          \* texts to compare
          LineEnd,        \* '\n' in them
          GhostPrograms,  \* programs for the ghost run
          StepLimit,      \* GHOST_STEP_LIMIT
          DocFiles,       \* files: sequences of kinds of lines
          TokenFiles,     \* files: sequences of kinds of tokens
          FileLines,      \* how many lines the file to cure has
          Diagnosed,      \* the lines that were diagnosed in it
          MaxErrors       \* MAX_PROJECT_ERRORS

ASSUME ToolingAssumption == StepLimit \in Nat /\ FileLines \in Nat /\ MaxErrors \in Nat

-----------------------------------------------------------------------------
(* tooling_registry.c and tooling_history.c *)
VARIABLES registry,   \* registryTable: the entry of each known name
          saved,      \* walia.registry
          archive,    \* WALIA_HISTORY_DIR: what the file of each hash holds
          writing,    \* a file opened for writing and not closed yet
          torn,       \* hashes whose file a crash cut short (history)
          edits

versionVars == <<registry, saved, archive, writing, torn, edits>>

EmptyTable == [n \in {} |-> 0]
Nothing == "nothing"
Put(f, x, y) == [z \in DOMAIN f \cup {x} |-> IF z = x THEN y ELSE f[z]]

VersionInit == /\ registry = EmptyTable /\ saved = EmptyTable /\ archive = EmptyTable
               /\ writing = Nothing /\ torn = {} /\ edits = 0

\* mutant: a symbol moves to the file it was found in last
EntryMoved(entry, block) == [entry EXCEPT !.filePath = block.filePath, !.status = "conflict"]

\* What walia_registry_add leaves of an entry that exists.
Updated(entry, block) ==
  IF entry.filePath # block.filePath THEN [entry EXCEPT !.status = "conflict"]
  ELSE IF entry.currentHash # block.bodyHash
  THEN [entry EXCEPT !.status = "dirty", !.currentHash = block.bodyHash]
  ELSE [entry EXCEPT !.status = "clean"]

walia_registry_add(name, block) ==
  /\ writing = Nothing /\ edits < MaxEdits /\ edits' = edits + 1
  /\ registry' = Put(registry, name,
       IF name \in DOMAIN registry THEN Updated(registry[name], block)
       ELSE [filePath |-> block.filePath, currentHash |-> block.bodyHash, status |-> "new"])
  /\ UNCHANGED <<saved, archive, writing, torn>>

\* walia_history_archive: a file that exists is left as it is, else it is created
\* empty and filled before it is closed.
walia_history_archive(body) ==
  /\ writing = Nothing /\ body \notin DOMAIN archive
  /\ archive' = Put(archive, body, Nothing) /\ writing' = body
  /\ UNCHANGED <<registry, saved, torn, edits>>
CloseArchive == /\ writing \in Bodies
                /\ archive' = Put(archive, writing, writing) /\ writing' = Nothing
                /\ UNCHANGED <<registry, saved, torn, edits>>

\* walia_history_get_content: what the file of a hash holds, if there is one
walia_history_get_content(body) == IF body \in DOMAIN archive THEN archive[body] ELSE "missing"

\* walia_registry_save truncates the file before it writes the entries.
walia_registry_save == /\ writing = Nothing /\ registry # EmptyTable
                       /\ saved' = EmptyTable /\ writing' = "registry"
                       /\ UNCHANGED <<registry, archive, torn, edits>>
CloseRegistry == /\ writing = "registry" /\ saved' = registry /\ writing' = Nothing
                 /\ UNCHANGED <<registry, archive, torn, edits>>

\* The process ends, whatever it was doing, and the next one calls walia_registry_init.
RestartTools == /\ registry # EmptyTable \/ writing # Nothing
                /\ registry' = saved /\ writing' = Nothing
                /\ torn' = IF writing \in Bodies THEN torn \cup {writing} ELSE torn
                /\ UNCHANGED <<saved, archive, edits>>

VersionNext == \/ \E name \in Symbols, file \in Files, body \in Bodies :
                    walia_registry_add(name, [filePath |-> file, bodyHash |-> body])
               \/ \E body \in Bodies : walia_history_archive(body)
               \/ CloseArchive \/ walia_registry_save \/ CloseRegistry \/ RestartTools

\* A symbol belongs to one file: memory and disk never disagree about it, through
\* conflicts, saves and restarts. And what the archive returns for a hash is the
\* body of that hash, except for a file that a crash cut, which stays so for ever; a
\* cut file is never taken for a body.
VersionsKept ==
  /\ \A name \in DOMAIN registry \cap DOMAIN saved : registry[name].filePath = saved[name].filePath
  /\ \A body \in Bodies :
       /\ walia_history_get_content(body) \in {body, Nothing, "missing"}
       /\ walia_history_get_content(body) = Nothing => body \in torn \cup {writing}

-----------------------------------------------------------------------------
(* tooling_diff.c *)
VARIABLES texts,      \* the old and the new text
          hasHistory, \* the archive has the old one
          rows        \* what walia_diff_visualize printed: marks and lines

diffVars == <<texts, hasHistory, rows>>

DiffInit == texts \in Texts \X Texts /\ hasHistory \in BOOLEAN /\ rows = <<>>

SplitPieces(text) ==
  FoldLeft(LAMBDA acc, c : IF c = LineEnd
                           THEN [lines |-> Append(acc.lines, acc.open), open |-> <<>>]
                           ELSE [acc EXCEPT !.open = Append(@, c)],
           [lines |-> <<>>, open |-> <<>>], text)

\* What follows the last line feed is a line unless it is empty.
split_lines(text) == LET read == SplitPieces(text)
                     IN read.lines \o (IF read.open = <<>> THEN <<>> ELSE <<read.open>>)

Row(mark, line) == <<[mark |-> mark, line |-> line]>>
LinesMarked(marks) == LET kept == SelectSeq(rows, LAMBDA row : row.mark \in marks)
                      IN [i \in DOMAIN kept |-> kept[i].line]

\* One pass of the loop: o and n, the lines consumed, are those already printed.
walia_diff_visualize ==
  LET old == split_lines(texts[1])  new == split_lines(texts[2])
      o == Len(LinesMarked({" ", "-"}))  n == Len(LinesMarked({" ", "+"}))
  IN /\ hasHistory /\ (o < Len(old) \/ n < Len(new))
     /\ rows' = rows \o
          IF o < Len(old) /\ n < Len(new) /\ old[o + 1] = new[n + 1]
          THEN Row(" ", old[o + 1])
          ELSE (IF o < Len(old) THEN Row("-", old[o + 1]) ELSE <<>>)
                 \o (IF n < Len(new) THEN Row("+", new[n + 1]) ELSE <<>>)
     /\ UNCHANGED <<texts, hasHistory>>

DiffNext == walia_diff_visualize

\* A finished comparison holds both texts: the rows unmarked or marked "-" put
\* together give the old one, those unmarked or marked "+" the new one.
DiffExact ==
  LET Side(i) == LinesMarked({" ", IF i = 1 THEN "-" ELSE "+"})
      Joined(lines) == FlattenSeq([k \in DOMAIN lines |-> Append(lines[k], LineEnd)])
  IN hasHistory /\ (\A i \in 1..2 : Len(Side(i)) = Len(split_lines(texts[i]))) =>
       \A i \in 1..2 : Joined(Side(i)) \in {texts[i], Append(texts[i], LineEnd)}

-----------------------------------------------------------------------------
(* tooling_simulator.c: the ghost run of a function *)
VARIABLES program, simStack, ip, instructionsExecuted, status

ghostVars == <<program, simStack, ip, instructionsExecuted, status>>

\* simStack is not initialised: each register may already look like a number or not.
GhostInit == /\ program \in GhostPrograms /\ simStack \in [0..1 -> {"number", "other"}]
             /\ ip = 0 /\ instructionsExecuted = 0 /\ status = "running"

\* Where the next instruction is: a loop goes back, and no jump is ever taken.
NextIp(inst) == IF inst.op = "OP_LOOP" THEN ip + 1 - inst.offset ELSE ip + 1

\* Why the run stops at an instruction, if it does.
Verdict(inst, executed) ==
  CASE inst.op = "OP_RETURN" -> "SIM_SUCCESS"
    [] inst.op = "OP_ADD" /\ "other" \in {simStack[inst.b], simStack[inst.c]} -> "SIM_ERROR_NIL_ACCESS"
    [] inst.op = "OP_LOOP" /\ executed > StepLimit \div 2 -> "SIM_ERROR_INFINITE_LOOP"
    [] executed >= StepLimit -> "SIM_ERROR_RECURSION_DEPTH"
    [] NextIp(inst) >= Len(program) -> "SIM_SUCCESS"
    [] OTHER -> "running"

walia_simulate_logic ==
  /\ status = "running"
  /\ LET inst == program[ip + 1]  executed == instructionsExecuted + 1
     IN /\ instructionsExecuted' = executed
        /\ status' = Verdict(inst, executed)
        /\ ip' = NextIp(inst)
        /\ simStack' = CASE inst.op = "OP_LOAD_CONST" -> [simStack EXCEPT ![inst.a] = inst.value]
                         [] inst.op = "OP_ADD" -> [simStack EXCEPT ![inst.a] = "number"]
                         [] OTHER -> simStack
  /\ UNCHANGED program

GhostNext == walia_simulate_logic

\* A ghost run is cut after StepLimit instructions and never ends well after a
\* loop: a loop has no way out of it but the limits.
GhostBounded ==
  /\ instructionsExecuted <= StepLimit
  /\ status = "SIM_SUCCESS" => /\ instructionsExecuted = ip
                               /\ \A i \in 1..ip : program[i].op # "OP_LOOP"
  /\ status = "SIM_ERROR_INFINITE_LOOP" => instructionsExecuted > StepLimit \div 2

-----------------------------------------------------------------------------
(* tooling_ledger.c *)
VARIABLES records, criticalCount, warningCount

ledgerVars == <<records, criticalCount, warningCount>>

LedgerInit == records = <<>> /\ criticalCount = 0 /\ warningCount = 0

\* A record beyond the last is dropped. The lock makes it one step.
walia_ledger_log(sev) ==
  /\ Len(records) < MaxErrors
  /\ records' = Append(records, [severity |-> sev, rippleScore |-> 0])
  /\ criticalCount' = criticalCount + (IF sev = "FAULT_CRITICAL" THEN 1 ELSE 0)
  /\ warningCount' = warningCount + (IF sev = "FAULT_WARNING" THEN 1 ELSE 0)

walia_ledger_calculate_ripple ==
  /\ records' = [i \in DOMAIN records |-> [records[i] EXCEPT
                   !.rippleScore = IF records[i].severity = "FAULT_CRITICAL" THEN 10 ELSE 1]]
  /\ UNCHANGED <<criticalCount, warningCount>>

\* walia_ledger_clear forgets the records and resets the counts.
walia_ledger_clear == records # <<>> /\ records' = <<>> /\ criticalCount' = 0 /\ warningCount' = 0

LedgerNext == \/ \E sev \in {"FAULT_CRITICAL", "FAULT_WARNING", "FAULT_INFO"} : walia_ledger_log(sev)
              \/ walia_ledger_calculate_ripple \/ walia_ledger_clear

\* The totals of the flight report are those of the records it lists.
ReportAddsUp ==
  /\ criticalCount = Cardinality({i \in DOMAIN records : records[i].severity = "FAULT_CRITICAL"})
  /\ warningCount = Cardinality({i \in DOMAIN records : records[i].severity = "FAULT_WARNING"})

-----------------------------------------------------------------------------
(* tooling_oracle_lexer.c: the documented examples of a file *)
VARIABLES file,        \* the kinds of its lines
          lineRead,    \* currentLine
          inDocBlock, snippet, \* currentSnip: body holds the lines taken into it
          snippets,    \* globalSnippets
          suite        \* how many of them were verified, and passCount

oracleVars == <<file, lineRead, inDocBlock, snippet, snippets, suite>>

EmptySnippet == [lineStart |-> 0, lineEnd |-> 0, body |-> <<>>, description |-> 0]

OracleInit == /\ file \in DocFiles /\ lineRead = 0 /\ inDocBlock = FALSE
              /\ snippet = EmptySnippet /\ snippets = <<>> /\ suite = [verified |-> 0, passCount |-> 0]

\* A line that starts with three slashes; "example" has the word in it.
DocLine(kind, l) ==
  LET begun == IF inDocBlock THEN snippet ELSE [snippet EXCEPT !.lineStart = l, !.body = <<>>]
  IN /\ kind \in {"doc", "example"}
     /\ inDocBlock' = TRUE
     /\ snippet' = IF kind = "example" THEN [begun EXCEPT !.description = l]
                   ELSE [begun EXCEPT !.body = Append(@, l)]
     /\ UNCHANGED snippets

\* A function or a class ends a block that is open, and its snippet is kept.
Declaration(kind, l) ==
  /\ kind = "declaration"
  /\ inDocBlock' = FALSE
  /\ IF inDocBlock THEN snippet' = EmptySnippet /\ snippets' = Append(snippets, [snippet EXCEPT !.lineEnd = l])
                   ELSE UNCHANGED <<snippet, snippets>>

\* Code at the margin abandons the block, but what was read into it stays.
OtherLine(kind, l) == /\ kind \in {"code", "blank", "indented"}
                      /\ inDocBlock' = (inDocBlock /\ kind # "code")
                      /\ UNCHANGED <<snippet, snippets>>

walia_oracle_scan_file ==
  /\ lineRead < Len(file) /\ lineRead' = lineRead + 1
  /\ LET kind == file[lineRead + 1]  l == lineRead + 1
     IN DocLine(kind, l) \/ Declaration(kind, l) \/ OtherLine(kind, l)
  /\ UNCHANGED <<file, suite, ledgerVars>>

\* compile_snippet fails, or the ghost run of what it compiled ends in some way.
Outcomes == {"syntax error", "SIM_SUCCESS", "SIM_ERROR"}

\* walia_oracle_verify_snippet: a failure is logged, unless the ledger is full.
walia_oracle_verify_snippet(outcome) ==
  /\ lineRead = Len(file) /\ suite.verified < Len(snippets)
  /\ suite' = [verified |-> suite.verified + 1,
               passCount |-> suite.passCount + (IF outcome = "SIM_SUCCESS" THEN 1 ELSE 0)]
  /\ IF outcome # "SIM_SUCCESS" /\ Len(records) < MaxErrors THEN walia_ledger_log("FAULT_CRITICAL")
     ELSE UNCHANGED ledgerVars
  /\ UNCHANGED <<file, lineRead, inDocBlock, snippet, snippets>>

\* What walia_oracle_run_suite says in the end, and whether main goes on to compile.
TruthPreserved == suite.passCount = Len(snippets)
MayCompile == criticalCount = 0

OracleNext == walia_oracle_scan_file \/ \E outcome \in Outcomes : walia_oracle_verify_snippet(outcome)

\* The example registered for a declaration is the documentation right above it:
\* all of it, and none that other code at the margin separates from it. After the suite
\* a program is compiled exactly if every example held, also when the ledger had no
\* room for the failures.
SnippetsExact ==
  /\ lineRead = Len(file) /\ suite.verified = Len(snippets) => (MayCompile <=> TruthPreserved)
  /\ \A i \in DOMAIN snippets :
       LET s == snippets[i]
           between == SubSeq(file, s.lineStart, s.lineEnd - 1)
       IN /\ file[s.lineEnd] = "declaration" /\ file[s.lineStart] \in {"doc", "example"}
          /\ ToSet(between) \cap {"code", "declaration"} = {}
          /\ ToSet(s.body) = {l \in s.lineStart..s.lineEnd : file[l] = "doc"}
          /\ \A l \in 1..(s.lineStart - 1) :
               (file[l] \in {"doc", "example"} =>
                  \E m \in l..s.lineStart : file[m] \in {"code", "declaration"})

-----------------------------------------------------------------------------
(* tooling_healer.c: a diagnosed file is rewritten beside itself and renamed *)
VARIABLES onDisk,   \* the lines of the file: <<line>> and <<line, "guard">>
          tmp,      \* the file written beside it
          target,   \* ctx.targetLine of the cure that runs; 0 for none
          copied,   \* lines copied so far
          cured     \* the lines of the cures that were renamed, in order (history)

healVars == <<onDisk, tmp, target, copied, cured>>

HealInit == /\ onDisk = [l \in 1..FileLines |-> <<l, "line">>] /\ tmp = <<>>
            /\ target = 0 /\ copied = 0 /\ cured = <<>>

walia_healer_apply_cure(l) ==
  /\ target = 0 /\ l \notin ToSet(cured)
  /\ target' = l /\ tmp' = <<>> /\ copied' = 0
  /\ UNCHANGED <<onDisk, cured>>

\* Copied of one line: the guard follows the line with the number of the fault.
GuardBelow(line) == IF copied + 1 = target THEN <<line, <<target, "guard">>>> ELSE <<line>>

apply_injection == /\ target # 0 /\ copied < Len(onDisk)
                   /\ tmp' = tmp \o GuardBelow(onDisk[copied + 1]) /\ copied' = copied + 1
                   /\ UNCHANGED <<onDisk, target, cured>>

\* atomic_rewrite ends with the rename.
atomic_rewrite == /\ target # 0 /\ copied = Len(onDisk)
                  /\ onDisk' = tmp /\ target' = 0 /\ cured' = Append(cured, target)
                  /\ UNCHANGED <<tmp, copied>>

\* The process ends in the middle; the file beside stays.
HealerStops == target # 0 /\ target' = 0 /\ UNCHANGED <<onDisk, tmp, copied, cured>>

HealNext == \/ \E l \in Diagnosed : walia_healer_apply_cure(l)
            \/ apply_injection \/ atomic_rewrite \/ HealerStops

\* Whenever the tool stops, the file has all its lines, in order; and cures that
\* were applied from the bottom up stand right below the lines they are for.
CuresInPlace ==
  /\ SelectSeq(onDisk, LAMBDA e : e[2] = "line") = [l \in 1..FileLines |-> <<l, "line">>]
  /\ (\A i, j \in DOMAIN cured : i < j => cured[i] > cured[j]) =>
       \A i \in DOMAIN onDisk : onDisk[i][2] = "guard" => i > 1 /\ onDisk[i - 1] = <<onDisk[i][1], "line">>

-----------------------------------------------------------------------------
(* tooling_hash_scanner.c: the blocks of a file *)
VARIABLES tokens, read, phase, braceDepth, bodyStart, regions

scanVars == <<tokens, read, phase, braceDepth, bodyStart, regions>>

ScanInit == /\ tokens \in TokenFiles /\ read = 0 /\ phase = "outside"
            /\ braceDepth = 0 /\ bodyStart = 0 /\ regions = {}

NextToken == IF read < Len(tokens) THEN tokens[read + 1] ELSE "eof"

Depth(token) == CASE token = "{" -> braceDepth + 1
                  [] token = "}" -> braceDepth - 1
                  [] OTHER -> braceDepth

\* The token after fun or class must be a name; then all is skipped up to a brace.
BeforeBody ==
  /\ phase' = CASE phase = "outside" -> (IF NextToken \in {"fun", "class"} THEN "name" ELSE "outside")
                [] phase = "name" -> (IF NextToken = "name" THEN "head" ELSE "outside")
                [] OTHER -> (IF NextToken = "{" THEN "body" ELSE "head")
  /\ bodyStart' = IF phase' = "body" THEN read + 2 ELSE bodyStart
  /\ braceDepth' = IF phase' = "body" THEN 1 ELSE braceDepth
  /\ UNCHANGED regions

\* What lies between the braces is the region that is hashed, closed or not.
InBody ==
  LET depth == Depth(NextToken)
  IN /\ braceDepth' = depth
     /\ IF depth = 0 \/ NextToken = "eof"
        THEN phase' = "outside" /\ regions' = regions \cup {<<bodyStart, read>>}
        ELSE UNCHANGED <<phase, regions>>
     /\ UNCHANGED bodyStart

extract_blocks ==
  /\ read <= Len(tokens) /\ read' = read + 1
  /\ IF phase = "body" THEN InBody ELSE BeforeBody
  /\ UNCHANGED tokens

ScanNext == extract_blocks

Opened(from, to) == Cardinality({i \in from..to : tokens[i] = "{"})
ClosedIn(from, to) == Cardinality({i \in from..to : tokens[i] = "}"})

\* The region that stands for a block is its body: balanced inside, and followed
\* by the brace that closes it unless the file ends first. No two regions overlap.
RegionsAreBodies ==
  \A region \in regions :
    LET from == region[1]  to == region[2]
    IN /\ \A i \in from..to : Opened(from, i) >= ClosedIn(from, i)
       /\ to < Len(tokens) => Opened(from, to) = ClosedIn(from, to) /\ tokens[to + 1] = "}"
       /\ \A other \in regions \ {region} : other[2] < from \/ other[1] > to
=============================================================================
