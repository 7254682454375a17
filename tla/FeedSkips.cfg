SPECIFICATION Spec
CONSTANTS
  u1 = u1
  NULL = NULL
  User = {u1}
  Ticket = {1, 2, 3}
  Filters <- AllFilters
  Limits = {1, 2}
  Statuses = {"OPEN", "RESOLVED"}
  MaxTime = 1
INVARIANTS NothingRemains
CHECK_DEADLOCK FALSE
