SPECIFICATION Spec
CONSTANTS
 Scenarios = {"ring", "line", "console", "table", "frames", "watch", "govern",
              "copies", "tokens", "numbers", "dashboard", "surface"}
 Senders = {s1, s2}
 Shell = s1
 Size = 2
 Wrap = 4
 Batch = 2
 Mailboxes = 2
 MaxClaims = 4
 Blank = Blank
 LineSize = 3
 Keys = {"a", "newline", "erase", "up", "down"}
 MaxKeys = 3
 MaxOthers = 1
 PortSize = 1
 Width = 2
 Height = 3
 BufSize = 4
 Lower <- MCLower
 Upper <- MCUpper
 Reports <- MCReports
 Clear <- MCClear
 Reboot <- MCReboot
 Scancodes = {"a","m","c","r","enter","back","down","up","ctrl"}
 MaxScancodes = 5
 FifoSize = 2
 Callers = {c1, c2}
 Hashes = {1, 2, 3}
 Home <- MCHome
 Buckets = 3
 Window = 2
 FirstFrame = 1
 Frames = 4
 MaxCalls = 4
 NoHash = 0
 NoAddr = 0
 NCores = 2
 Word = 16
 Threshold = 2
 MaxClock = 5
 Readouts = {0, 2, 4, 5, 7, 9, 12}
 Limits = {0, 9}
 Fallback = 10
 Targets <- MCTargets
 Critical = 10
 MaxLevel = 3
 Band = 2
 MaxUpdates = 4
 Words = 2
 Memory = 6
 Strings <- MCStrings
 Delimiters = {32}
 Numbers <- MCNumbers
 IntMax = 15
 Bases = {2, 10, 16, 99}
 MaxTokenCalls = 4
 Terminals <- MCTerminals
 MaxColumns = 8
 MaxRows = 6
 Widgets <- MCWidgets
 Gauge = 2
 MaxPulses = 1
 PulseTypes <- MCPulses
 MaxRounds = 2
 Surfaces <- MCSurfaces
 LineAlign = 4
 TileSize = 2
 Tiles <- MCTiles
 CardPixels = 4
 Elements <- MCElements
 Paints = {0, 7}
 MaxPaints = 2
INVARIANTS Delivered LineShown FoldsExact ReportsJustified KernelExact DrawnAsSeen
PROPERTIES KeysRead NoOscillation
CHECK_DEADLOCK FALSE
