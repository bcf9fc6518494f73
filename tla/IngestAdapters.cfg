SPECIFICATION AdaptersSpec
CONSTANTS
    Adapters = {"rtsp", "ais", "adsb", "mqtt", "http", "geotiff"}
    Frames <- MCFrames
    AisLines <- MCAisLines
    AdsbLines <- MCAdsbLines
    Messages <- MCMessages
    Requests <- MCRequests
    Files = {f1, f2}
    None = "none"
    MaxItems = 3
    MaxSendFailures = 1
SYMMETRY Symmetry
INVARIANTS
    WholeItemsInOrder
    RequestsOutlastShutdown
    FrameNumbersRise
    OnlySnapshotsSkewed
