SPECIFICATION IngestSpec
CONSTANTS
    Domains = {ais, adsb}
    None = None
    Timestamps <- MCTimestamps
    WatermarkMs = 1
    NegInf <- MCNegInf
    MaxStream = 6
    MaxMessages = 3
    MaxRestarts = 1
    MaxDropped = 1
    MaxJoins = 1
INVARIANTS
    NothingLostOrRepeated
    InOrderUnlessLateOrFlushed
    CommittedIsStreamed
    OnceInOrderPerJoin
PROPERTY
    ReachesThePipeline
CHECK_DEADLOCK FALSE
