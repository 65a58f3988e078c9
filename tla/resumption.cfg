SPECIFICATION Spec
CONSTANTS
  TCE = {1, 2}
  TIE = {11, 21}
  Parent <- MCParent
  Order <- MCOrder
  Version <- MCVersion
  Tracks = {0, 1}
  TrackOf <- TwoTracks
  SameCounter = {}
  ReExecutable = {11, 21}
  Informs <- TwoLists
  ReportStatuses = {5}
  MaxReports = 1
  MaxResponses = 0
  MayExpire = {}
  MayBeUnsendable = {}
  MaxNacks = 0
  MaxLostAnswers = 0
  MaxDbErrors = 0
  MaxCrashes = 1
INVARIANT OnePlace
PROPERTY AcceptedIsSent
CHECK_DEADLOCK FALSE
