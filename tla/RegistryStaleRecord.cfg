SPECIFICATION Spec
CONSTANTS
    s1 = s1
    s2 = s2
    s3 = s3
    Sessions <- Two
    IdOf <- SharedId
    Overwrites = {}
    Listers = {}
    Limit = 2
    Keep = 1
    Faults = {}
    None = None
    Torn = Torn
INVARIANTS OwnResult
CHECK_DEADLOCK FALSE
