SPECIFICATION FairSpec
CONSTANTS
  n1 = n1
  n2 = n2
  t1 = t1
  viewer = viewer
  agent = agent
  r1 = r1
  r2 = r2
  NULL = NULL
  Socket = {viewer, agent}
  Replica = {r1, r2}
  Tenant = {n1, n2}
  Ticket = {t1}
  HomeOf <- Homes
  TokenOf <- Tokens
  Event <- ThreeEvents
  MaxEvents = 1
  MaxTime = 1
  MaxFaults = 1
INVARIANTS HeardOnlyItsOwn  OwedIsCarried
PROPERTIES ExpiredSocketsClose NoticesArrive
CHECK_DEADLOCK FALSE
