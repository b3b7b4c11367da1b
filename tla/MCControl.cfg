CONSTANTS
    Client = {c1, c2}
    Setting = {s1, s2}
    CommandCapacity = 2
    MaxRevision = 2
    Idle = Idle
    NoWork = NoWork
    NoConfig = NoConfig
SYMMETRY Symmetry
SPECIFICATION Spec
INVARIANT EngineAgreesUnlessDoubt
PROPERTIES NoLostUpdate AcknowledgedIsDurable
