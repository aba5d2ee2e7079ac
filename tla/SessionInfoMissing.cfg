SPECIFICATION Spec
CONSTANTS
    r1 = r1
    r2 = r2
    Callers = {r1}
    Ops <- OnlyInfo
    MaxIn = 0
    MaxOut = 1
    InputCap = 2
    SpawnMayFail = FALSE
    StorageMayFail = FALSE
    SignalMayFail = FALSE
    Slow = {}
    PollMayTimeOut = FALSE
INVARIANT InfoFindsSession
