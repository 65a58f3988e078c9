SPECIFICATION SafeSpec
CONSTANTS
  TCE = {1}
  TIE = {11, 12}
  Parent <- MCParent
  Order <- MCOrder
  Version <- MCVersion
  Tracks = {0, 1}
  TrackOf <- TwoTracks
  SameCounter = {}
  ReExecutable = {11, 12}
  Informs <- OneTestCase
  ReportStatuses = {2, 5}
  MaxReports = 1
  MaxResponses = 0
  MayExpire = {11}
  MayBeUnsendable = {12}
  MaxNacks = 1
  MaxLostAnswers = 1
  MaxDbErrors = 1
  MaxCrashes = 1
INVARIANTS TypeOK OnePlace StartedInOrder EndsForAReason IInv
PROPERTIES FinalStays
CHECK_DEADLOCK FALSE
