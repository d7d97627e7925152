SPECIFICATION FairSpec
CONSTANTS
  MaxRequests = 6
  MaxUid = 6
  Patient = TRUE
INVARIANT PageIsAsked
PROPERTY RequestAnswered
CHECK_DEADLOCK FALSE
