SPECIFICATION FairSpec
CONSTANTS
    BELTS = 1
    BELT_WORDS = 1
    GEAR_2 = 0
    WORD_MAX = 65535
    Versions <- MCVersions
    Value <- MCValue
    Partial <- MCPartial
    Weak = {3}
    MaxFailures = 1
    Broken = Broken
    None = None
    Host = 1
    Slaves = {2}
    MSG_MAX = 2
    STATUS_MAX = 1
    MaxDatagrams = 2
    MaxResets = 1
INVARIANTS TypeOK FlashShape RunsWhatIsStored BufferEmptyWhenOpen HandledOnce AckedIsStored
PROPERTIES RegisterSpec RepliesEnd
