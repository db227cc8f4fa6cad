SPECIFICATION Spec
CONSTANTS
    MaxRows = 1
    Names = {n1, n2}
    AgentNames = {n1}
    Contents = {a, b}
    Callers = {c1, c2}
    Boot = Boot
    None = None
    Tombstone = Tombstone
SYMMETRY Symmetry
CHECK_DEADLOCK FALSE
INVARIANTS
    FilesMatchRows
    ManifestIsBacked
    IngestedBeforePurge
