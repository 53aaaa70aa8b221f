SPECIFICATION MeaningSpec
CONSTANTS
  INT_MAX = 2
  MAX_DEPTH = 6
  FUEL = 60
  PIDs = {1}
  Files <- AllFiles
  FilesAfter <- Follow
  CHUNK = 2
  MAX_COMPILES = 3
INVARIANTS CompiledMeaning AcceptsWellScoped StackDiscipline JumpsAreLinked
PROPERTIES EndsLikeSource HistoryDoesNotShow CorrectFilesHeal
CHECK_DEADLOCK FALSE
