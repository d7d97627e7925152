SPECIFICATION FairSpec
CONSTANT MaxLate = 2
INVARIANTS TypeOK InStep
PROPERTIES AttemptEnds ImplementsFetch
CHECK_DEADLOCK FALSE
