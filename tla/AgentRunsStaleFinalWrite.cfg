SPECIFICATION Spec
CONSTANTS
    Incidents = {i1}
    Runs = {r1, r2}
    MaxConns = 1
    Columns <- NoColumns
    NoRun = NoRun
    NoIncident = NoIncident
PROPERTIES
    FinalWriteByOwner
CHECK_DEADLOCK FALSE
