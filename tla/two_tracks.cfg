SPECIFICATION SafeSpec
CONSTANTS
  TCE = {1}
  TIE = {11, 12}
  Parent <- MCParent
  Order <- MCOrder
  Version <- MCVersion
  Tracks = {0, 1}
  TrackOf <- TwoTracks
  SameCounter = {}
  ReExecutable = {}
  Informs <- OneTestCase
  ReportStatuses = {5, 7}
  MaxReports = 1
  MaxResponses = 0
  MayExpire = {}
  MayBeUnsendable = {}
  MaxNacks = 0
  MaxLostAnswers = 0
  MaxDbErrors = 0
  MaxCrashes = 0
INVARIANTS StatusFollows
CHECK_DEADLOCK FALSE
