SPECIFICATION LiveSpec
CONSTANTS
  Unset = Unset
  Kinds = {table, schema}
  Interval = 2
  MaxLate = 1
  MaxLines = 4
  MaxIdle = 3
INVARIANTS
  Paced
  WaitBounded
PROPERTIES
  EveryLineWritten
