SPECIFICATION Spec
CONSTANTS
  TCE = {1, 2, 3}
  Tracks = {0, 1}
  TrackOfTce <- TceTracks
  TrackOfTie <- TieTracks
  ChannelSize = 5
  LeftBehind <- FromQueues
  Overdue = {3}
  Unsendable = {1}
  Calling = {3}
INVARIANTS TypeOK AnswersAreAwaited 
PROPERTIES StuckAreResent 
CHECK_DEADLOCK FALSE
