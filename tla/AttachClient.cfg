SPECIFICATION FairSpec
CONSTANTS
    Clients = {c1}
    Cap = 2
    MaxOut = 5
    Ground <- GroundOf5
    SnapshotMayFail = TRUE
INVARIANTS TypeOK StreamTiles SnapshotAtBoundary BacklogBounded
PROPERTIES ScreenNeverGoesBack ShutdownCompletes ClientCatchesUp
CHECK_DEADLOCK FALSE
