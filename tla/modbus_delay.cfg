SPECIFICATION FairSpec
CONSTANTS
    Inverters = {1}
    RwFlags = {1}
    Intervals = {1}
    Retries = {0, 1}
    RECV_WAIT = 3
    BYTE_GAP = 2
    RETRY_INTERVAL = 2
    DEFAULT_INTERVAL = 3
    BUFF_SIZE = 3
    ReplyLen = 2
    Slow = {}
    MaxNoise = 0
    MaxWire = 3
    MaxPreempt = 1

PROPERTIES DelayThenSend
CHECK_DEADLOCK FALSE
