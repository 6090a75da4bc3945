CONSTANTS
    Client = {a, b, c}
    Snapshot = {early, late}
    Missing = Missing  Torn = Torn  Unknown = Unknown
    MaxBoots = 2
    MaxMisreads = 1
SPECIFICATION Spec
PROPERTIES
    ImplementsCheckpointStore
SYMMETRY ClientSymmetry
CHECK_DEADLOCK FALSE
