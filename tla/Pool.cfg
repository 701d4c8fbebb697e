SPECIFICATION Spec
CONSTANTS
  InitPages = 2
  MaxPages = 4
  TableLimit = 4
  Vals = {0}
  NFrames = 2
  FixedPages = {1, 3}
  Registry = 1
  MaxCreated = 3
  MaxPins = 1
  MaxStops = 0
INVARIANTS PinsHold PagesApart
CHECK_DEADLOCK FALSE
