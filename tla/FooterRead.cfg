\* Two overwrites against at most four requests.
SPECIFICATION Spec
CONSTANTS
  Window = 14
  Contents <- ParquetOrNot
  Backends <- AllBackends
  MaxRevs = 3
INVARIANTS
  PinnedIsOneRevision
  FailsForAReason
CHECK_DEADLOCK FALSE
