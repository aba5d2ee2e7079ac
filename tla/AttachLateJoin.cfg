SPECIFICATION Spec
CONSTANTS
    Clients = {c1}
    Cap = 2
    MaxOut = 2
    Ground <- GroundOf2
    SnapshotMayFail = FALSE
INVARIANT NobodyLeftBehind
CHECK_DEADLOCK FALSE
