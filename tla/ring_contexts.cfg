SPECIFICATION Spec
CONSTANTS
    maxSize = 4
    Values = {e1, e2}
    LowAdds = TRUE
    HighClears = TRUE
    LowClears = TRUE
INVARIANTS TypeOK QueueIntact SlotStable RingInv
PROPERTIES FifoUntilRace
