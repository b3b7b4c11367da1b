CONSTANTS
    Strength = {"zero", "half", "full"}
    Dry = "zero"
    FullStrength = "full"
    Config <- MCConfig
    MaxApplies = 2
    Frames = 2
    RING = 3
    MISSES = 2
    WINDOW = 1
    INTERVAL = 2
SPECIFICATION FairSpec
INVARIANTS NoTornParameters StateTellsTruth
PROPERTY SettingsReachSink
