SPECIFICATION TableSpec
CONSTANTS
  MAX_JOBS = 5
  Contents = {a, b}
  MovedFrom = moved
INVARIANT IdsAscend
PROPERTY OneJobLeaves
CHECK_DEADLOCK FALSE
