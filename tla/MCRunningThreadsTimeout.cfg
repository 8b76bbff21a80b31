SPECIFICATION Spec
CONSTANTS
    Action = {a1, a2, a3}
    NoAction = NoAction
    MaxThreads = 1
    MaxBatches = 2
    StopMayTimeOut = TRUE
SYMMETRY Symmetry
INVARIANT
    FifoOrder
CHECK_DEADLOCK FALSE
