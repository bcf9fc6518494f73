SPECIFICATION GenerationSpec
CONSTANTS
    ingest1 = ingest1
    ingest2 = ingest2
    Coas = {c1}
    Requests = {r1, r2}
    Ranks = {first}
    None = None
    MaxFailures = 1
    MaxCrashes = 1
    Modes = {"cloud", "edge"}
    NumOptions = 2
    MinConfidence = 15
    Confidences = {10, 90}
    Ingests = {ingest1, ingest2}
    Chunks <- MCChunks
    TopK = 2
SYMMETRY Symmetry
INVARIANTS
    TrailIsTrue
    TrailEndsInForce
    
    EdgeStoresAllOptions
CHECK_DEADLOCK FALSE
