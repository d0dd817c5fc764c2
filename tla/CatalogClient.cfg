\* Every command on small catalogs; every call may fail in six ways.
SPECIFICATION Spec
CONSTANTS
  None = None
  Limit = 1000
  Situations <- AllSituations
INVARIANTS
  WholeListing
  OneTable
  LeaseFits
