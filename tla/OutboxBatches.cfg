SPECIFICATION Spec
CONSTANTS
  p1 = p1  p2 = p2  w1 = w1  w2 = w2  sla = sla  realtime = realtime
  Event = {1, 2}
  Queue = {sla}
  Guarded = {sla}
  Unsupported <- SecondOfSla
  RouteOf <- GuardedOnly
  Publisher = {p1, p2}
  Worker = {w1, w2}
  BatchSize = 2
  MaxAttempts = 2
  JobAttempts = 2
  MaxFaults = 3
SYMMETRY ProcessSymmetry
 
PROPERTIES ImplementsDelivery
CHECK_DEADLOCK FALSE
