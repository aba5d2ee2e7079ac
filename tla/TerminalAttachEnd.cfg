SPECIFICATION Spec
CONSTANTS
    Routes = {"socket", "bridge"}
    Transports = {"killable"}
    Faults = {}
    MaxFaults = 0
    PipeCap = 1
    MaxOut = 2
    MaxEvents = 1
INVARIANT EndIsTold
