SPECIFICATION Spec
CONSTANTS
    Clients = {c1, c2}
    Cap = 1
    MaxOut = 2
    Ground <- GroundOf2
    SnapshotMayFail = FALSE
SYMMETRY ClientSymmetry
INVARIANTS EndedIsLast NoSilentClose
PROPERTIES ImplementsOutputStream
CHECK_DEADLOCK FALSE
