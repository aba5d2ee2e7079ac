SPECIFICATION FairSpec
CONSTANTS
    Routes = {"bridge"}
    Transports = {"unkillable", "held"}
    Faults = {"local"}
    MaxFaults = 1
    PipeCap = 1
    MaxOut = 2
    MaxEvents = 0
PROPERTY AttachAlwaysReturns
