SPECIFICATION Spec
CONSTANTS
 Data = {0, 1}
 Object = Object
 Registers = 2
 FramesMax = 3
 StackMax = 12
 Effects = {"io", "log"}
 MaxPrograms = 1
 MaxWork = 5
 HeapSize = 16
 Alignment = 2
 ArenaStart = 4
 ArenaSize = 10
 Header = 1
 MinBlock = 1
 Requests = {1, 2, 3}
 Sizes = {1, 4}
 Graphs <- MCGraphs
 MaxSteps = 6
 NULL = NULL
 f1 = f1
 f2 = f2
 f3 = f3
 Futures = {f1, f2, f3}
 Lists <- MCLists
 MaxGroups = 2
 TimerSlots = 2
 Delays = {0, 1, 2}
 MaxTimers = 3
 MaxCount = 2
 MaxNow = 3
 Descriptors = {1, 2, 3}
 Harvest = 2
 MaxRegistrations = 4
 Sources <- MCSources
 Letters = {"o", "r", "i", "f", "_"}
 Digits = {"7"}
 Blanks = {" "}
 LineFeed = "nl"
 Quote = "q"
 Single = {"/"}
 Doubles <- MCDoubles
 Keywords <- MCKeywords
 ShortWords <- MCShortWords
 Lines = {1, 2, 3}
 MaxCode = 6
 Block = 4
 LengthField = 2
 Pieces = {0, 1, 2, 3, 5}
 MaxMessage = 9
 Items = {1, 2}
 MaxList = 3
 Limit = 3
 BatchSize = 4
 MaxGenomes = 3
 Sinks = {1, 2, 3}
 Operands = {0, 1}
 MaxDepth = 3
 MaxWrites = 2
 Names = {"a", "b", "c"}
 MaxTransitions = 2
 Elements = {"panel"}
 MaxObserved = 5
 Symbols = {"f", "g"}
 Files = {"one", "two"}
 Bodies = {"first", "second"}
 MaxEdits = 3
 Texts <- MCTexts
 LineEnd = "nl"
 GhostPrograms <- MCPrograms
 StepLimit = 8
 DocFiles <- MCDocFiles
 TokenFiles <- MCTokenFiles
 FileLines = 3
 Diagnosed = {1, 2, 3}
 MaxErrors = 3
 Dimensions = {1, 2}
 Atomic <- MCAtomic
 UnitTexts <- MCUnitTexts
 Trees <- MCTrees
 TypeSizes <- MCTypeSizes
 DefaultType = "Value"
 BitWidths = {0, 3, 13}
 MaxMembers = 3
 Scripts <- MCScripts
 MagicNames = {"init"}
 NativeNames = {"clock"}
 StackSlots = 3
 ByteOrders = {"low first"}
 Scenarios = {"effects"}
INVARIANT RegistersPreserved
CHECK_DEADLOCK FALSE
