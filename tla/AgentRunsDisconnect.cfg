SPECIFICATION FairSpec
CONSTANTS
    Incidents = {i1}
    Runs = {r1}
    MaxConns = 3
    Columns <- OneColumn
    NoRun = NoRun
    NoIncident = NoIncident
PROPERTIES
    DisconnectedWaitersWake
CHECK_DEADLOCK FALSE
