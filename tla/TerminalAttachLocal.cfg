SPECIFICATION Spec
CONSTANTS
    Routes = {"socket"}
    Transports = {"killable"}
    Faults = {"local"}
    MaxFaults = 1
    PipeCap = 1
    MaxOut = 1
    MaxEvents = 0
INVARIANT DisconnectedIsRemote
