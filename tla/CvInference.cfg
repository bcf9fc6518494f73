SPECIFICATION CvSpec
CONSTANTS
    TrackIds = {t1, t2, t3}
    Detections = {d1, d2}
    MaxMissed = 2
    MinHits = 1
    MaxScore = 2
    MaxFrames = 5
    MaxFailures = 1
    Uploads = {u1, u2}
    MaxUploads = 2
    MaxFramesAmid = 2
SYMMETRY Symmetry
INVARIANTS
    IdentityKept
    AcceptedStands
PROPERTIES
    SwapDropsNoFrame
CHECK_DEADLOCK FALSE
