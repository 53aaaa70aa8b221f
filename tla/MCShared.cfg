SPECIFICATION Spec
CONSTANTS
  MAX_PID = 2
  Objects = {o1, o2, o3, o4}
  INT_MAX = 1
  STACK_SIZE = 4
  MAX_VARS = 4
  MAX_STEPS = 5
  NoIR = NoIR
  IRs <- SharedCode
INVARIANTS TypeOK HeapsPartition OwnedRoots LifecycleConsistent
PROPERTY OwnersMeaning
SYMMETRY Symmetry
CHECK_DEADLOCK FALSE
