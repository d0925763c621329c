SPECIFICATION CommandsSpec
CONSTANTS
    Capacity = 2
    MaxOutput = 3
    MaxDirectives = 2
    MaxWords = 2
INVARIANTS ShowsBuild FlagsAsAsked
PROPERTY CommandEnds
CHECK_DEADLOCK FALSE
