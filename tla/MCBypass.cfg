CONSTANTS
    CAPACITY = 3
    BLOCK = 2
    Quanta <- MCQuanta
    STARTUP_FRAME = 2
    STARTUP_QUANTA = 0
    EMPTY = TRUE
    RAMP = 2
    MaxCaptured = 6
    MaxGeneration = 3
SPECIFICATION Spec
INVARIANT NoSplice
PROPERTY IsFreshChannel
