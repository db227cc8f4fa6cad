SPECIFICATION FairSpec
CONSTANTS
    ToolCalls = {t1}
    Loads = {l1, l2}
    Probes = {p1}
    MaxConns = 2
    MaxReconnectAttempts = 2
    None = None
INVARIANTS
    PooledNotClosed
    StoppedPoolEmpty
    RunningIsAccountedFor
PROPERTIES
    HealthyAnswersAreOwn
    CallsReturn
    StoppedPoolDrains
CHECK_DEADLOCK FALSE
