SPECIFICATION Spec
CONSTANTS
    r1 = r1
    r2 = r2
    Callers = {r1, r2}
    Ops <- AnyOps
    MaxIn = 3
    MaxOut = 1
    InputCap = 2
    SpawnMayFail = TRUE
    StorageMayFail = TRUE
    SignalMayFail = TRUE
    Slow = {r1, r2}
    PollMayTimeOut = TRUE
SYMMETRY CallerSymmetry
INVARIANT TypeOK
