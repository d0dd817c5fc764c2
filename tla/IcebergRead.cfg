\* Three tables of three metadata versions, nine reads, three stores; one request may fail.
SPECIFICATION FairSpec
CONSTANTS
  Tables <- AllTables
  Manifests <- SomeManifests
  Texts <- HintTexts
  Requests <- AllRequests
  Styles <- TwoStyles
  Stores <- AllStores
  MaxId = 8
  MaxFaults = 1
  None = None
INVARIANTS
  OneSnapshot
  PinnedToRecord
  NotOlder
  WholeAncestry
  UndisturbedResolves
PROPERTY Ends
CHECK_DEADLOCK FALSE
