SPECIFICATION FairSpec
INVARIANT TypeOK
INVARIANT ToldIsLoaded
PROPERTY LeadsOut
CHECK_DEADLOCK FALSE
