SPECIFICATION Spec
CONSTANTS
    Incidents = {i1, i2}
    Runs = {r1, r2}
    MaxConns = 2
    Columns <- OneColumn
    NoRun = NoRun
    NoIncident = NoIncident
SYMMETRY Symmetry
INVARIANTS
    NoStrandedEntry
    FramesAreOwn
PROPERTIES
    WokenResultStable
    NoStreamAfterWake
    VerdictNotOverwritten
    RunRowSettlesOnce
CHECK_DEADLOCK FALSE
