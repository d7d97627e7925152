SPECIFICATION Spec
CONSTANTS
  N = 4
  MaxOdd = 2
INVARIANTS TypeOK OnlyStuckLeft
CHECK_DEADLOCK FALSE
