\* get table then list files, of a table without a snapshot.
SPECIFICATION Spec
CONSTANTS
  Tables <- EmptyTable
  Manifests <- SomeManifests
  Texts <- HintTexts
  Requests <- GetThenList
  Styles <- TwoStyles
  Stores <- OneStore
  MaxId = 8
  MaxFaults = 0
  None = None
INVARIANT RecordCanBeListed
CHECK_DEADLOCK FALSE
