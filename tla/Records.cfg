\* Two files of one table measured at once, hand-written documents of up to three lines, and
\* the inputs of each function.
SPECIFICATION RecordsSpec
CONSTANTS
  None = None
  Tiny = Tiny
  NaN = NaN
  U32 = 5
  Few = 12
  Limit = 22
  Files <- SampleFiles
  RunFiles <- SampleRunFiles
  LaterFiles <- SampleLaterFiles
  Envs <- SampleEnvs
  Flags <- SampleFlags
  Feeds <- TwoFeeds
  Documents <- AllDocuments
INVARIANTS
  AllOrNothing
  RowsAreTheTable
  CostsAddUp
  NamesRoundTrip
  ProfileFacts
  ReportAddsUp
  DiffAddsUp
  FilesSelected
  NothingDropped
  SetupPins
CHECK_DEADLOCK FALSE
