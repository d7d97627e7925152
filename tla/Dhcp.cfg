SPECIFICATION FairSpec
CONSTANTS
  c1 = c1
  c2 = c2
  s1 = s1
  s2 = s2
  a1 = a1
  a2 = a2
  NoOne = NoOne
  Clients = {c1, c2}
  Servers = {s1, s2}
  Addrs = {a1, a2}
  Pool <- OneEach
  NoLeaseTime = {s2}
  Noisy = TRUE
  MaxTries = 2
  MaxTicks = 2
  MaxAttempts <- TwoAndOne
INVARIANTS TypeOK AckAnswersRequest PortFree
PROPERTIES ImplementsTable AttemptEnds
CHECK_DEADLOCK FALSE
