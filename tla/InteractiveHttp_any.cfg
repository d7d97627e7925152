SPECIFICATION Spec
CONSTANTS
  MaxRequests = 3
  MaxUid = 2
  Patient = FALSE
INVARIANT TypeOK
INVARIANT AnswerUsedOnce
CHECK_DEADLOCK FALSE
