SPECIFICATION ListSpec
CONSTANTS
  TCE = {1, 2}
  TIE = {11, 12, 21}
  Parent <- MCParent
  SuiteOf <- OneSuite
  Order <- MCOrder
  Version <- MCVersion
  Tracks = {0}
  TrackOf <- OneTrack
  SameCounter = {}
  ReExecutable = {}
  Informs <- OneList
  ReportStatuses = {2, 5, 7}
  MaxReports = 1
  MaxResponses = 0
  MayExpire = {}
  MayBeUnsendable = {}
  MaxNacks = 1
  MaxLostAnswers = 0
  MaxDbErrors = 0
  MaxCrashes = 1
INVARIANTS ListIInv RowsToUpdate StatusFollows ListingFollows SuiteFinishes
CHECK_DEADLOCK FALSE
