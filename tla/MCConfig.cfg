CONSTANTS
    default = default
    c1 = c1
    c2 = c2
    Config <- MCConfigs
    Default = default
    Attempts = 2
    Absent = Absent
    Malformed = Malformed
    Newer = Newer
    None = None
SYMMETRY Symmetry
SPECIFICATION Spec
PROPERTIES IsDurable NewerPreserved StaysReadable
