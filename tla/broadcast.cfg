SPECIFICATION Spec
CONSTANTS
  TCE = {1, 2}
  Level <- AllOrEnds
  Batches <- OneOrBoth
  TceStatuses <- Executing
  ResultStatuses <- Ended
  ChannelSize = 2
  MaxReports = 4
  MaxLosses = 2
  MaxFailures = 1
  MaxRestarts = 1
INVARIANTS TypeOK IInv
PROPERTIES LossShows GapMeansLoss
CHECK_DEADLOCK FALSE
