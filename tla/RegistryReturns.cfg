SPECIFICATION FairSpec
CONSTANTS
    s1 = s1
    s2 = s2
    s3 = s3
    Sessions <- Two
    IdOf <- SharedId
    Overwrites = {s2}
    Listers = {l1}
    Limit = 1
    Keep = 1
    Faults = {"abandon", "crash", "spawn"}
    None = None
    Torn = Torn
PROPERTIES EveryStartReturns
CHECK_DEADLOCK FALSE
