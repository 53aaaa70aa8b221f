SPECIFICATION FairSpec
CONSTANTS
  Pids = {p1, p2, p3}
  shell_pgid = sh
  shell_interactive = TRUE
  MAX_JOBS = 2
  MAX_PIPE = 2
INVARIANTS TypeOK JobsAreGroups GroupsAreDisjoint TerminalOwner StoppedIsListed RunningIsListed WaitedIsForeground
PROPERTIES ForegroundReturns PromptReturns
CHECK_DEADLOCK FALSE
