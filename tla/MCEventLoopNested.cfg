\* Stage 0 code, an event loop inside an event loop.
SPECIFICATION Spec
CONSTANTS
    MaxCoros = 4
    MaxOps = 2
    MaxDepth = 2
    MaxWaiting = 1
    SuspendMarks = TRUE
INVARIANTS
    WaitingExact
    OneWakeup
PROPERTIES
    NoEarlyResume
