SPECIFICATION Spec
CONSTANTS
    PACK = 8
    RX_SIZE = 24
    Tags <- MCTags
    Ids <- MCIds
    Idle = Idle
    Host = 1
    Slaves = {2, 3}
    Down <- MCDown
    LastStation = 2
    QUEUE_MAX = 5
    ParaLen = 20
    BeltNumber = 2
    Gears = {0}
    Flags = {}
    MaxEvents = 1
    MaxFaults = 0
INVARIANT ParasMine
