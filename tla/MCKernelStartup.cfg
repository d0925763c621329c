SPECIFICATION StartupSpec
CONSTANTS
    MaxInstalls = 3
    MaxStarts = 4
    MaxKilled = 1
    MaxResets = 1
INVARIANT LanguageFollowsMode
PROPERTY RestartEntersSwift
CHECK_DEADLOCK FALSE
