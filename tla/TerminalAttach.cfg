SPECIFICATION FairSpec
CONSTANTS
    Routes = {"socket", "bridge"}
    Transports = {"killable", "unkillable", "held"}
    Faults = {"cancel", "local", "crash", "transport"}
    MaxFaults = 1
    PipeCap = 1
    MaxOut = 1
    MaxEvents = 1
INVARIANTS OutcomeIsTrue NilMeansOver NothingLeftBehind
PROPERTIES AttachReturns
CONSTRAINT StuckBound
