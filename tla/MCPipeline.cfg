SPECIFICATION FairSpec
CONSTANTS
  Pipelines <- MCPipelines
  MAX_PIPE = 4
  MAX_FD = 6
  CAPACITY = 1
  DATA = 2
INVARIANTS ChildEnds ShellKeepsNone
PROPERTIES PipelineFinishes
CHECK_DEADLOCK FALSE
