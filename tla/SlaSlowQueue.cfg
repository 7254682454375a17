SPECIFICATION Spec
CONSTANTS
  t1 = t1  w1 = w1  s1 = s1  s2 = s2
  NULL = NULL
  Ticket = {t1}
  Worker = {w1}
  Sweeper = {s1}
  Targets <- OnePolicy
  SweepBatch = 2
  MaxTime = 2
  MaxFacts = 1
  MaxFaults = 0
INVARIANTS AnsweredInTimeIsNotBreached
CHECK_DEADLOCK FALSE
