SPECIFICATION FairSpec
CONSTANTS
    r1 = r1
    r2 = r2
    Callers = {r1, r2}
    Ops <- MixedOps
    MaxIn = 1
    MaxOut = 0
    InputCap = 1
    SpawnMayFail = FALSE
    StorageMayFail = FALSE
    SignalMayFail = FALSE
    Slow = {r2}
    PollMayTimeOut = TRUE
PROPERTIES ShutdownCompletes KillTerminates AcceptedIsAnswered
