SPECIFICATION Spec
CONSTANTS
    MaxJobs = 1
    SystemJobs = {}
    Schedules = {s1, s2}
    Clients = {c1, c2, c3}
    Ticks = {x1}
    None = None
SYMMETRY Symmetry
INVARIANTS
    NoLeakedEntry
    SettledEntriesMatchRows
    TicksEndWell
CHECK_DEADLOCK FALSE
