SPECIFICATION FairSpec
CONSTANTS
    PACK = 8
    RX_SIZE = 24
    Tags <- MCTags
    Ids <- MCIds
    Idle = Idle
    Host = 1
    Slaves = {2}
    Down <- MCDown
    LastStation = 1
    QUEUE_MAX = 4
    ParaLen = 20
    BeltNumber = 1
    Gears = {0, 2}
    Flags = {1}
    MaxEvents = 2
    MaxFaults = 2
INVARIANTS TypeOK AssemblySound ParasOwn ReplyWhole LineAgrees
PROPERTIES NeighbourLearns
