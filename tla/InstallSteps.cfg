SPECIFICATION FairSpec
INVARIANT TypeOK
INVARIANT NeedsDone
INVARIANT WorkDoneOrTold
INVARIANT CompleteWhenDone
PROPERTY PackagesStay
PROPERTY EndsUnlessFailing
CHECK_DEADLOCK FALSE
