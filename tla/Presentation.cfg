SPECIFICATION Spec
CONSTANTS
    Modes = {"auto", "isolated", "native"}
    Heights = {1, 2}
    DefaultRows = 2
    MaxFailures = 1
    MaxPieces = 3
    MaxEvents = 1
INVARIANTS ScreenSettles TerminalLeftUsable PreAttachSurvives
