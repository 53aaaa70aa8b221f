SPECIFICATION Spec
CONSTANTS
  Letters = {"a"}
  Lines <- ShortLines
INVARIANTS TypeOK CommandsAreRunnable AcceptsGrammar CommandsMatchTokens TextIsKept
CHECK_DEADLOCK FALSE
