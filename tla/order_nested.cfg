SPECIFICATION Spec
CONSTANTS
  Models <- AllModels
  MaxOrderNumber = 9999999
INVARIANT InModelOrder
CHECK_DEADLOCK FALSE
