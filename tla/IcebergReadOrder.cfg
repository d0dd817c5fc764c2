\* The commits of a sound table, from its root.
SPECIFICATION Spec
CONSTANTS
  Tables <- SoundTable
  Manifests <- SomeManifests
  Texts <- HintTexts
  Requests <- CommitWalk
  Styles <- TwoStyles
  Stores <- OneStore
  MaxId = 8
  MaxFaults = 0
  None = None
INVARIANT NewestFirst
CHECK_DEADLOCK FALSE
