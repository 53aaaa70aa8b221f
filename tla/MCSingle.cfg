SPECIFICATION FairSpec
CONSTANTS
  MAX_PID = 1
  Objects = {o1, o2, o3, o4}
  INT_MAX = 1
  STACK_SIZE = 2
  MAX_VARS = 1
  MAX_STEPS = 9
  NoIR = NoIR
  IRs <- OneCode
PROPERTIES LeaksAreVariables ObjectsAreImmutable ExecutorReturns
CHECK_DEADLOCK FALSE
