SPECIFICATION Spec
CONSTANTS
  TIE = {i1, i2, i3}
  None = None
  Temporary = 1
  Durations = {3}
  Margin = 0
  ChannelSize = 2
  MaxTime = 1
  MaxCalls = 1
SYMMETRY Symmetry
INVARIANTS TypeOK ListIsOrdered Cancelling
CHECK_DEADLOCK FALSE
