CONSTANTS
    None = None
    \* Recovery
    INITIAL_BACKOFF = 1
    MAX_BACKOFF = 40
    U32Max = 8
    U64Max = 3
    MaxElapsed = 2
    \* InputRegistry
    Id <- MCId
    Reported <- MCReported
    Present <- MCPresent
    Reserved = "noire"
    Nothing = None
    WINDOW = 2
    MaxEvents = 2
    \* SignalPath
    FRAME = 2
    SPECS <- MCSpecs
    RATE = 48
    CALLBACK = 3
    RAMP = 3
    UNIT = 27
    MaxSamples = 7
    MaxTargets = 3
    MaxMishaps = 2
    \* CaptureBuffers
    Pod <- MCPods
    RATE_HZ = 48
    Buffers <- MCBuffers
    F32_BYTES = 2
    MAX_CALLBACK = 1
    Absent = None
    MaxGeneration = 2
    MaxCallbacks = 2
    \* ConfigSchema
    Documents <- MCDocuments
    Texts <- MCTexts
    Strengths <- MCStrengths
    Blank = "blank"
    U16Max = 2
    Unset = None
    MaxCalls = 3
    \* Autostart
    Desktop = {d1, d2}
    Image = {here, there}
    NoEntry = None
    Foreign = "foreign"
    NoDesktop = "ended"
    NoCommand = "unknown"
    MaxSteps = 4
SPECIFICATION PartsSpec
INVARIANTS PublishedInTime ExactSelection Aligned FreshLevel SavedReadsBack NeverLockedOut UserDecides
PROPERTIES NeverPostponed Seamless NoClick RejectedIsStopped
\* The histories are bounded: a part stops when its bound is reached.
CHECK_DEADLOCK FALSE
