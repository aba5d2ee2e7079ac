SPECIFICATION Spec
CONSTANTS
    HeadSize = 4
    TailSize = 2
    ChunkSize = 4
    MaxTotal = 6
    Ground <- GroundPlain
    StorageMayFail = FALSE
INVARIANT HeadIsKept
CHECK_DEADLOCK FALSE
