SPECIFICATION Spec
CONSTANTS
    RESET_TIME = 5
    PHOTO_TIME = 5
    BUTTON_TIME = 10
    STREAM_UP_TIME = 2
    STREAM_DOWN_TIME = 20
    EMERGENCY_TIME = 5
    PHOTO_PERIOD = 30
    STREAM_PERIOD = 50
    EMERGENCY_PERIOD = 50
INVARIANTS TypeOK CalledAgain ScanInv
PROPERTIES ExactDebounce
