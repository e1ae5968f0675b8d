\* Stage 0 code, one event loop at a time.
SPECIFICATION FairSpec
CONSTANTS
    MaxCoros = 4
    MaxOps = 2
    MaxDepth = 1
    MaxWaiting = 1
    SuspendMarks = TRUE
INVARIANTS
    TypeOK
    NoFault
    Quiescent
PROPERTIES
    LoopReturns
    ShutdownEnds
