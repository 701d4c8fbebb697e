------------------------------ MODULE MCMetal ------------------------------
(***************************************************************************)
(* The parts of WaliaOS that run below the language, each on its own: the   *)
(* scenario is chosen at the start and only its part takes steps.          *)
(***************************************************************************)
EXTENDS LineInput, Console, Folding, Health, Kernel, Canvas, TLC

CONSTANT Scenarios

VARIABLE scenario

drawnVars == <<kernelVars, nexusVars, surfaceVars>>
metalVars == <<scenario, lineVars, consoleVars, foldingVars, healthVars, drawnVars>>

MCLower == [a |-> "a", m |-> "m", c |-> "c", r |-> "r", enter |-> Newline, back |-> Erase]
MCUpper == [a |-> "A", m |-> "M", c |-> "C", r |-> "R", enter |-> Newline, back |-> Erase]
MCReports == (<<"m">> :> <<Newline, "0", Newline>>)
MCClear == <<"c">>
MCReboot == <<"r">>
MCHome(h) == IF h = 3 THEN 1 ELSE 0
MCTargets == [balanced |-> 7, powersave |-> 5]

MCStrings == UNION {[1..n -> {65, 97, 32}] : n \in 0..3}
MCNumbers == -16 .. 15
MCTerminals == {<<7, 6>>, <<8, 7>>}
MCWidgets == [pages |-> <<0, 1, 5, 4>>, gauge |-> <<4, 0, 4, 6>>, tank |-> <<0, 3, 4, 3>>]
MCPulses == {<<"read", 0>>, <<"hop", 1>>, <<"sweep", 1>>}
MCSurfaces == {<<3, 3>>, <<4, 2>>}
MCTiles == <<2, 2>>
MCElements == {[x |-> x, y |-> 0, w |-> 1, h |-> h, visible |-> v, color |-> h] :
                 x \in {0, 3}, h \in {1, 2}, v \in BOOLEAN}

Init == /\ scenario \in Scenarios
        /\ RingInit /\ (scenario # "ring" => kind = "bus")
        /\ InitInput /\ ConsoleInit /\ FoldInit
        /\ HealthInit /\ (scenario # "govern" => policy = "balanced" /\ tjMax = Fallback)
        /\ KernelInit
        /\ IF scenario = "dashboard" THEN NexusInit
           ELSE /\ nexusRunning = FALSE /\ thread = "none" /\ caller = "free" /\ bus = <<>>
                /\ stats = NoStats /\ rounds = 0 /\ canvas = EmptyCanvas
                /\ terminal = [showing |-> FALSE, pen |-> DefaultPen, opened |-> DefaultPen,
                                cursor |-> TRUE]
        /\ SurfaceInit /\ (scenario # "surface" => surface = NewSurface(CHOOSE size \in Surfaces : TRUE))

Rings == /\ scenario = "ring" /\ RingNext
         /\ UNCHANGED <<scenario, inputVars, consoleVars, foldingVars, healthVars, drawnVars>>
Line == /\ scenario = "line" /\ LineNext
        /\ UNCHANGED <<scenario, consoleVars, foldingVars, healthVars, drawnVars>>
OnConsole(A) == /\ scenario = "console" /\ A
                /\ UNCHANGED <<scenario, lineVars, foldingVars, healthVars, drawnVars>>
Fold == /\ \/ scenario = "table" /\ TableNext
           \/ scenario = "frames" /\ FrameNext
        /\ UNCHANGED <<scenario, lineVars, consoleVars, healthVars, drawnVars>>
Watch == /\ \/ scenario = "watch" /\ WatchNext
            \/ scenario = "govern" /\ GovernNext
         /\ UNCHANGED <<scenario, lineVars, consoleVars, foldingVars, drawnVars>>

Library == /\ \/ scenario = "copies" /\ CopyNext
              \/ scenario = "tokens" /\ TokenNext
              \/ scenario = "numbers" /\ AskNext
           /\ UNCHANGED <<scenario, lineVars, consoleVars, foldingVars, healthVars, nexusVars, surfaceVars>>
Drawings == /\ \/ scenario = "dashboard" /\ NexusNext /\ UNCHANGED surfaceVars
               \/ scenario = "surface" /\ SurfaceNext /\ UNCHANGED nexusVars
            /\ UNCHANGED <<scenario, lineVars, consoleVars, foldingVars, healthVars, kernelVars>>

Next == Rings \/ Line \/ OnConsole(ConsoleNext) \/ Fold \/ Watch \/ Library \/ Drawings

\* The processor goes on and its timer ticks: the console's loop is the only process
\* whose progress is asked about.
Spec == /\ Init /\ [][Next]_metalVars
        /\ WF_metalVars(OnConsole(Timer)) /\ WF_metalVars(OnConsole(NoKey))
        /\ WF_metalVars(OnConsole(Hlt)) /\ WF_metalVars(OnConsole(Execute))
        /\ WF_metalVars(OnConsole(EditLine))

-----------------------------------------------------------------------------
(* These join properties stated, with the code they are about, in the modules  *)
(* named.                                                                      *)

\* LineInput and Console: a line is what was typed, erasures counted, with an echo that does
\* not take back what was erased; and the screen of the console
\* shows what was put on it.
LineShown == LinesAsTyped /\ ScreenShowsLine

\* Folding: cores that fold pages at once agree on the frame of a hash, and the frames
\* that are left are counted.
FoldsExact == FoldsAgree /\ FramesCounted
=============================================================================
