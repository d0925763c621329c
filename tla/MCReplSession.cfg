SPECIFICATION Spec
CONSTANTS
    lib = lib
    user = user
    Names <- MCNames
    Shipped = {lib}
    Communicator = lib
    MaxCells = 4
    MaxLines = 2
    MaxEdits = 2
    MaxFailures = 2
INVARIANTS ReadyMeansPrepared GivenOnce
PROPERTY ReadyKeepsProcess
CHECK_DEADLOCK FALSE
