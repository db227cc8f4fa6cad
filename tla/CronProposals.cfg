SPECIFICATION ProposalsSpec
CONSTANTS
    MaxJobs = 1
    SystemJobs = {}
    Schedules = {s1, s2}
    Clients = {c1, c2}
    Ticks = {x1}
    Proposals = {p1}
    None = None
SYMMETRY Symmetry
INVARIANTS
    ApprovedWasApplied
PROPERTIES
    UnvettedJobsDoNotFire
    UncontestedDecisionsStand
    RunnerSpec
CHECK_DEADLOCK FALSE
