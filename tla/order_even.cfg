SPECIFICATION Spec
CONSTANTS
  Models <- EvenModels
  MaxOrderNumber = 19
INVARIANTS TypeOK InModelOrder NumbersInOrder LowestFirst
CHECK_DEADLOCK FALSE
