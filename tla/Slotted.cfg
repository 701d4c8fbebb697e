SPECIFICATION FairSpec
CONSTANTS
  a = a
  b = b
  c = c
  Zero = zero
  Bytes = {a, b, c, zero}
  Data <- MCData
  PageSize = 7
  HeaderSize = 1
  SlotSize = 1
  UInt16 = 16
  UInt32 = 32
INVARIANT SegmentsApart
PROPERTY RefusedOnlyWhenFull ImplementsRecordPage InsertionsReturn
CHECK_DEADLOCK FALSE
