SPECIFICATION StopSpec
CONSTANTS
    Action = {a1, a2}
    NoAction = NoAction
    MaxThreads = 2
    MaxBatches = 2
    StopMayTimeOut = FALSE
INVARIANTS
    SingleOwner
    StopCancelsRunning
    NoStragglers
PROPERTIES
    DropsAreAskedFor
    SilentAfterShutdown
    StopAllReturns
    QueuedIsServed
CHECK_DEADLOCK FALSE
