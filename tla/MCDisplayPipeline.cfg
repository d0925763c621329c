SPECIFICATION Spec
CONSTANTS
    MaxCells = 4
    MaxDisplays = 3
INVARIANTS SentOnceInOrder ParentIsDisplayingCell LostOnlyWithException
PROPERTY SuccessLeavesNothing
CHECK_DEADLOCK FALSE
