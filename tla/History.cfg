SPECIFICATION Spec
CONSTANTS
  Shells = {s1, s2}
  Lines = {a, b}
  MAX_LINES = 3
INVARIANT ListedIsRecorded
CHECK_DEADLOCK FALSE
