SPECIFICATION Spec
CONSTANTS
    Routes = {"bridge"}
    Transports = {"unkillable", "held"}
    Faults = {"cancel", "local", "crash", "transport"}
    MaxFaults = 1
    PipeCap = 1
    MaxOut = 1
    MaxEvents = 1
INVARIANTS NilMeansOver NothingLeftBehind
