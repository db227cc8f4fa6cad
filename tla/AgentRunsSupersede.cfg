SPECIFICATION FairSpec
CONSTANTS
    Incidents = {i1}
    Runs = {r1, r2}
    MaxConns = 1
    Columns <- NoColumns
    NoRun = NoRun
    NoIncident = NoIncident
INVARIANTS
    EntriesMatchWaiters
    NoIncidentLeftRunning
PROPERTIES
    OwnershipSpec
    DisplacedWaitersExit
CHECK_DEADLOCK FALSE
