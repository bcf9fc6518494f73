SPECIFICATION Spec
CONSTANTS
    p1 = p1
    p2 = p2
    e1 = e1
    e2 = e2
    e3 = e3
    Partitions = {p1, p2}
    Entities = {e1, e2, e3}
    PartitionOf <- MCPartitionOf
    None = None
    Early = 1
    MaxLog = 3
    MaxCrashes = 1
    MaxDisconnects = 1
    MaxExpiries = 1
PROPERTIES
    ReplaysTheTopic
    NeverGoesBack
    CatchesUp
CHECK_DEADLOCK FALSE
