SPECIFICATION SafeSpec
CONSTANTS
  TCE = {1, 2}
  TIE = {11, 12, 21}
  Parent <- MCParent
  Order <- MCOrder
  Version <- MCVersion
  Tracks = {0, 1}
  TrackOf <- TwoTracks
  SameCounter = {}
  ReExecutable = {}
  Informs <- OneList
  ReportStatuses = {5, 7}
  MaxReports = 1
  MaxResponses = 1
  MayExpire = {}
  MayBeUnsendable = {}
  MaxNacks = 1
  MaxLostAnswers = 0
  MaxDbErrors = 0
  MaxCrashes = 0
INVARIANTS SentOnce Driven
PROPERTIES ExecutesSerially
CHECK_DEADLOCK FALSE
