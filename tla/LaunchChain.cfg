SPECIFICATION FairSpec
CONSTANTS
    MaxLaunches = 4
    Cancels = {k1}
INVARIANTS
    OneSessionRuns
    NewerIsNotAborted
PROPERTIES
    LaunchesReport
CHECK_DEADLOCK FALSE
