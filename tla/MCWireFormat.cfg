SPECIFICATION FairSpec
CONSTANTS
    Inputs <- MCInputs
    InitialCapacity = 2
    Sizes = {0, 1, 8, 9, 24}
    MaxParts = 2
    MaxMessages = 2
INVARIANTS InBounds
PROPERTIES ImplementsTransfer TransferEnds
CHECK_DEADLOCK FALSE
