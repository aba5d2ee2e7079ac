SPECIFICATION Spec
CONSTANTS
    Modes = {"auto", "isolated", "native"}
    Heights = {1, 2, 3}
    DefaultRows = 2
    MaxFailures = 1
    MaxPieces = 3
    MaxEvents = 0
INVARIANT FailureUndone
