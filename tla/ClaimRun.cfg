SPECIFICATION ClaimSpec
CONSTANTS
  MAX_PID = 1
  Objects = {o1, o2, o3}
  INT_MAX = 1
  STACK_SIZE = 4
  MAX_VARS = 4
  MAX_STEPS = 9
  NoIR = NoIR
  IRs <- SetOnly
INVARIANT RunCompletes
SYMMETRY Symmetry
CHECK_DEADLOCK FALSE
