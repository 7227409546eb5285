SPECIFICATION Spec
CONSTANTS
    N = 2
    Gears = {1}
    Switch <- TwoBelts
    DownStream = 1
    QCAP = 3
    COMM_RETRY = 0
    BLOCK_TIME = 1
    MaxBacklog = 1
    Preempt = TRUE
    Server = FALSE
    Lossy = FALSE
    MaxTrips = 0
    MaxOps = 4
INVARIANT
    StopWins
