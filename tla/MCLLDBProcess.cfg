SPECIFICATION Spec
CONSTANTS
    MaxCells = 3
    MaxFrames = 3
INVARIANTS GlobalsAgree MemoryGivenBack UnwrapsSafely TraceShowsSource
CHECK_DEADLOCK FALSE
