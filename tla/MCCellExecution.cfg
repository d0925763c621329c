SPECIFICATION Spec
CONSTANTS
    MaxCells = 2
    MaxOutput = 2
    MaxDirectives = 1
    Wide <- SecondIsWide
    Interrupts = TRUE
INVARIANTS
    IInv
    HandlerConfinement
    ExactlyOnceStdout
    FlushedAtJoin
    DeadReplNeverSucceeds
    TraceFollowsStdout
    RepliesAgree
    MessageOrder
PROPERTIES
    NothingStreamsWhileRunning
    ImplementsProtocol
\* The bound on requests is reached, or the kernel has exited or crashed.
CHECK_DEADLOCK FALSE
