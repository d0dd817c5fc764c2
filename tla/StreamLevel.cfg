\* Two parents over two slots: tasks, channel and driver interleave.
SPECIFICATION LiveSpec
CONSTANTS
  NoItem = NoItem
  MaxLines = 2
  MaxItems = 2
  BufCap = 1
  FanOut = 2
  MaxBatch = 2
  CanPanic = TRUE
  LineKinds = {"record", "misfit", "blank", "garbled"}
INVARIANTS
  StreamOrder
  GreenIsComplete
  Backpressure
PROPERTIES
  PromiseSpec
  Progress
