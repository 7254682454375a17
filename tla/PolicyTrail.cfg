SPECIFICATION Spec
CONSTANTS
  w1 = w1  w2 = w2  w3 = w3  t1 = t1
  NULL = NULL
  Worker = {w1, w2, w3}
  Ticket = {t1}
  Priority = {"URGENT", "HIGH"}
  PriorityOf <- UrgentOnly
  Input <- Inputs
  DefaultPolicy <- Defaults
  SlaMaxMinutes = 2
  MaxChanges = 2
SYMMETRY WorkerSymmetry
INVARIANTS  PromisesAreOnRecord ResetsFollowChanges
CHECK_DEADLOCK FALSE
