SPECIFICATION LiveSpec
CONSTANTS
  NoItem = NoItem
  MaxLines = 3
  MaxItems = 1
  BufCap = 1
  FanOut = 2
  LineKinds = {"record", "misfit", "blank", "garbled"}
INVARIANTS
  NoStalledRead
  ParentOrder
PROPERTIES
  PromiseSpec
  Progress
