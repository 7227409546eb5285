SPECIFICATION FairSpec
CONSTANTS
    Inverters = {1, 2}
    RwFlags = {0, 1}
    Intervals = {0, 2}
    Retries = {1}
    RECV_WAIT = 5
    BYTE_GAP = 2
    RETRY_INTERVAL = 2
    DEFAULT_INTERVAL = 2
    BUFF_SIZE = 3
    ReplyLen = 2
    Slow = {1}
    MaxNoise = 1
    MaxWire = 2
    MaxPreempt = 1
INVARIANTS TypeOK NoHang OneTimer TimerInv AckMeansExecuted
PROPERTIES LinkSpec CommandEnds
