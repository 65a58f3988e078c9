SPECIFICATION Spec
CONSTANTS
  TCE = {1, 2}
  TIE = {11, 12, 21}
  Parent <- MCParent
  Order <- MCOrder
  Version <- MCVersion
  Tracks = {0, 1}
  TrackOf <- TwoTracks
  SameCounter <- AllPairs
  ReExecutable = {}
  Informs <- OneList
  ReportStatuses = {5, 7}
  MaxReports = 1
  MaxResponses = 0
  MayExpire = {}
  MayBeUnsendable = {}
  MaxNacks = 0
  MaxLostAnswers = 0
  MaxDbErrors = 0
  MaxCrashes = 0
PROPERTIES AllEnd
CHECK_DEADLOCK FALSE
