SPECIFICATION Spec
CONSTANTS
    MaxIncidents = 2
    MaxAlerts = 3
    Keys = {k1, k2}
    Txs = {t1, t2}
    Mentioned = {2}
    ClosedByHand = {2}
    MovedTo = {}
    Operations <- OfLifecycle
SYMMETRY Symmetry
INVARIANTS InvestigationsHaveAlerts CompletedHasFiringAlert NoFiringAlertOnMerged
PROPERTIES EntersMonitorQuiet
CHECK_DEADLOCK FALSE
