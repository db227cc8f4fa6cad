SPECIFICATION FairSpec
CONSTANTS
    Requests = {q1, q2}
    MaxConns = 2
    Nobody = Nobody
INVARIANTS
    PendingMatchesCalls
PROPERTIES
    CallsReturnPromptly
    ImplementsRPC
CHECK_DEADLOCK FALSE
