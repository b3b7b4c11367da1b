CONSTANTS
    d1 = d1
    d2 = d2
    Device <- MCDevice
    Configs <- MCConfigs
    NoDevice = NoDevice
    NoConfig = NoConfig
    NoGraph = NoGraph
    INITIAL_BACKOFF = 1
    MAX_BACKOFF = 1
    U32Max = 1
    COALESCE = 1
    RESET_INTERVAL = 1
    MaxElapsed = 1
    MaxDisturbances = 2
SPECIFICATION MCSpec
INVARIANT HealthyIsRealized
