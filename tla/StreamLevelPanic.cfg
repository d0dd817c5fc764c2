\* A core stream may panic, in the one task that a fan-out of 0 still allows.
SPECIFICATION Spec
CONSTANTS
  NoItem = NoItem
  MaxLines = 1
  MaxItems = 1
  BufCap = 1
  FanOut = 0
  MaxBatch = 1
  CanPanic = TRUE
  LineKinds = {"record"}
INVARIANTS
  GreenMeansNothingLost
