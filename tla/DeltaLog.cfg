\* Five versions in pages of two, read two at a time; one commit may be lost, one request may fail.
SPECIFICATION FairSpec
CONSTANTS
  MaxVersion = 4
  Histories <- BothLogs
  Losses <- SomeLosses
  Requests <- AllRequests
  Stages <- TwoStages
  Width = 2
  PageSize = 2
  MaxFaults = 1
  None = None
INVARIANTS
  InLogOrder
  NothingSkipped
  OneStretch
PROPERTY Ends
CHECK_DEADLOCK FALSE
