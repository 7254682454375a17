SPECIFICATION FairSpec
CONSTANTS
  t1 = t1  w1 = w1  s1 = s1  s2 = s2
  NULL = NULL
  Ticket = {t1}
  Worker = {w1}
  Sweeper = {s1, s2}
  Targets <- OnePolicy
  SweepBatch = 1
  MaxTime = 2
  MaxFacts = 2
  MaxFaults = 1
INVARIANTS NeverMetAndBreached TimersFollowTheFacts BreachesAreReal
PROPERTIES  OverdueIsSettled 
CHECK_DEADLOCK FALSE
