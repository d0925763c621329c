SPECIFICATION Spec
CONSTANTS
    MaxCells = 2
    MaxOutput = 1
    MaxDirectives = 0
    Wide <- SecondIsWide
    Interrupts = TRUE
PROPERTIES
    InterruptSparesKernel
\* The bound on requests is reached, or the kernel has exited or crashed.
CHECK_DEADLOCK FALSE
