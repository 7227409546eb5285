SPECIFICATION Spec
CONSTANTS
    N = 2
    Gears = {1}
    Switch <- TwoBelts
    DownStream = 0
    QCAP = 3
    COMM_RETRY = 1
    BLOCK_TIME = 1
    MaxBacklog = 1
    Preempt = FALSE
    Server = TRUE
    Lossy = TRUE
    MaxTrips = 0
    MaxOps = 3
INVARIANTS
    TypeOK
    StopWins
    AlarmShowsBlock
    EmergencyWins
