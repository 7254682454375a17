SPECIFICATION Spec
CONSTANTS
  w1 = w1  w2 = w2  o1 = o1  o2 = o2  k1 = k1  k2 = k2  k3 = k3
  NULL = NULL
  Worker = {w1, w2}
  Slug = {"acme"}
  Org = {o1, o2}
  Token = {k1, k2, k3}
  Ttl = 2
  MaxTime = 2
  MaxFaults = 1
SYMMETRY IdSymmetry
INVARIANTS OneOrganizationPerSlug  FamilyGoesOn
PROPERTIES ClosedForGood
CHECK_DEADLOCK FALSE
