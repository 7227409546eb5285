SPECIFICATION FairSpec
CONSTANTS
    N = 2
    Gears = {1}
    Switch <- TwoBelts
    DownStream = 1
    QCAP = 3
    COMM_RETRY = 0
    BLOCK_TIME = 1
    MaxBacklog = 1
    Preempt = FALSE
    Server = FALSE
    Lossy = FALSE
    MaxTrips = 1
    MaxOps = 3
PROPERTY
    UpstreamStops
