SPECIFICATION Spec
CONSTANTS
  InitPages = 4
  MaxPages = 4
  TableLimit = 5
  Vals = {0, 1}
  NFrames = 1
  FixedPages = {2}
  Registry = 1
  MaxCreated = 1
  MaxPins = 1
  MaxStops = 1
INVARIANTS CommittedPrefix 
CHECK_DEADLOCK FALSE
