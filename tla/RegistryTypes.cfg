SPECIFICATION Spec
CONSTANTS
    s1 = s1
    s2 = s2
    s3 = s3
    Sessions <- Two
    IdOf <- OwnIds
    Overwrites = {}
    Listers = {}
    Limit = 1
    Keep = 1
    Faults = {"crash", "spawn", "store"}
    None = None
    Torn = Torn
INVARIANT TypeOK
CHECK_DEADLOCK FALSE
