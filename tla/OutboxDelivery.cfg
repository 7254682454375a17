SPECIFICATION FairSpec
CONSTANTS
  p1 = p1  p2 = p2  w1 = w1  w2 = w2  sla = sla  realtime = realtime
  Event = {1}
  Queue = {sla, realtime}
  Guarded = {sla}
  Unsupported = {}
  RouteOf <- BothQueues
  Publisher = {p1, p2}
  Worker = {w1, w2}
  BatchSize = 1
  MaxAttempts = 2
  JobAttempts = 2
  MaxFaults = 3
INVARIANTS TypeOK EffectAtMostOnce DuplicatesArePaidFor  PublishedReachedEveryQueue CompletedMeansDone
PROPERTIES EventuallyPublished 
CHECK_DEADLOCK FALSE
