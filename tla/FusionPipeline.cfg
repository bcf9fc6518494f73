SPECIFICATION Spec
CONSTANTS
    EntityIds = {e1, e2}
    Positions <- MCPositions
    ais = ais
    adsb = adsb
    Sources = {ais, adsb}
    Sure = {ais, adsb}
    Gate <- MCGate
    MaxSpeed = 1
    MaxGap = 1
    LostTimeout = 1
    MaxBatch = 1
    MaxNow = 2
    MaxFailures = 1
    MaxRestarts = 1
SYMMETRY Symmetry
INVARIANTS
    NoPhantomTrack
    PublishedIsPersisted
    WrittenThrough
PROPERTIES
    LostIsFinal
CHECK_DEADLOCK FALSE
