SPECIFICATION IntakeSpec
CONSTANTS
    op1 = op1
    op2 = op2
    a1 = a1
    j1 = j1
    Alerts = {a1}
    Operators = {op1, op2}
    Requests = {r1, r2, r3}
    Jobs = {j1}
    Offline <- MCOffline
    Tokens <- MCTokens
    WorkerTokens <- MCWorkerTokens
    None = None
    MaxFailures = 1
    MaxStalled = 1
SYMMETRY Symmetry
INVARIANTS
    LogIsTrue
    AcknowledgedByLast
    OnlyEntitled
    OfflineIsDone
CHECK_DEADLOCK FALSE
