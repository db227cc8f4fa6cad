SPECIFICATION FairSpec
CONSTANTS
    MaxIncidents = 2
    MaxAlerts = 1
    Keys = {k1}
    Txs = {t1, t2}
    Mentioned = {}
    ClosedByHand = {}
    MovedTo = {1}
    Operations <- OfSweeping
PROPERTIES MonitorEnds
CHECK_DEADLOCK FALSE
