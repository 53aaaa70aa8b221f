SPECIFICATION Spec
CONSTANTS
  MAX_PID = 1
  Objects = {o1}
  INT_MAX = 1
  STACK_SIZE = 1
  MAX_VARS = 1
  MAX_STEPS = 2
  NoIR = NoIR
  IRs <- Code
  Pids = {p1, p2}
  shell_pgid = sh
  shell_interactive = TRUE
  MAX_JOBS = 1
  MAX_PIPE = 2
  Directories = {home, work}
INVARIANT PromptsOwnTerminal
PROPERTIES PipelinesKeepShell BadJobsAreRefused
SYMMETRY Symmetry
CHECK_DEADLOCK FALSE
