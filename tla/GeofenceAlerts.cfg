SPECIFICATION Spec
CONSTANTS
    outer = outer
    inner = inner
    far = far
    edge = edge
    core = core
    Entities = {a}
    Positions = {far, edge, core}
    Zones = {outer, inner}
    Holds <- MCHolds
    Trigger <- MCTrigger
    None = None
    Warmup = 1
    MaxJobs = 3
    MaxEdits = 1
    MaxFailures = 1
    MaxCrashes = 1
INVARIANTS
    OneAlertPerCrossing
    AlertsMatchMemory
    NoSecondAlert
CHECK_DEADLOCK FALSE
PROPERTY
    EveryJobEnds
