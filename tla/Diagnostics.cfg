SPECIFICATION FairSpec
CONSTANTS
    t1 = t1
    t2 = t2
    n1 = n1
    n2 = n2
    Target = {t1, t2}
    Names = {n1, n2}
    Requests <- SomeRequests
    MaxLatency = 2
    Day = 1
    RetentionDays = 3
    Zones = {1}
    Faults = {"statement"}
    MaxRows = 3
    MaxTime = 2
    Windows = {1}
    Low = 50
    High = 75
    Cap = 2
    BriefLimit = 1
    ListLimit = 2
INVARIANTS
    FiguresAgree
    ListsAgree
PROPERTIES
    KeptWhileNeeded
    OldLogsGo
