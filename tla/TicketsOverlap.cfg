SPECIFICATION FairSpec
CONSTANTS
  w1 = w1  w2 = w2  n1 = n1  n2 = n2  t1 = t1  t2 = t2  u1 = u1  u2 = u2
  NULL = NULL
  Worker = {w1, w2}
  Tenant = {n1, n2}
  Ticket = {t1, t2}
  User = {u1, u2}
  Ops <- AllOps
  MembersOf <- MixedMembers
  AgentsOf <- MixedAgents
  MaxTime = 3
INVARIANTS RowsLifecycleConsistent RowsExplained NumbersGapless  AutoAssignedOnce
PROPERTIES PersonWinsUnlessStale OnlyStaleWritesBreakTheLifecycle ImplementsDesk RequestsEnd
CHECK_DEADLOCK FALSE
