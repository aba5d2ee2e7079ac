SPECIFICATION Spec
CONSTANTS
    Modes = {"auto", "isolated", "native"}
    Heights = {1, 2, 3}
    DefaultRows = 2
    MaxFailures = 0
    MaxPieces = 3
    MaxEvents = 2
INVARIANT SizeSettles
