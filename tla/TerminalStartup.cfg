SPECIFICATION StartupSpec
CONSTANT MAX_SUSPENDS = 2
PROPERTIES LeadersBecomeReady NothingIsTaken
CHECK_DEADLOCK FALSE
