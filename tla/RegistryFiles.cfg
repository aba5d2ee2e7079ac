SPECIFICATION FilesSpec
CONSTANTS
    s1 = s1
    s2 = s2
    s3 = s3
    Sessions <- Three
    IdOf <- OwnIds
    Overwrites = {}
    Listers = {}
    Limit = 1
    Keep = 1
    Faults = {"crash", "spawn", "store"}
    None = None
    Torn = Torn
INVARIANTS CapRespected Reachable HistoryBesideRecord RetentionBounded
CHECK_DEADLOCK FALSE
