SPECIFICATION Spec
CONSTANTS
    s1 = s1
    s2 = s2
    s3 = s3
    Sessions <- Two
    IdOf <- OwnIds
    Overwrites = {}
    Listers = {}
    Limit = 1
    Keep = 1
    Faults = {"spawn"}
    None = None
    Torn = Torn
INVARIANTS RetentionExact
CHECK_DEADLOCK FALSE
