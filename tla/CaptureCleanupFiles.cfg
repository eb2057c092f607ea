SPECIFICATION FairSpec
CONSTANTS
    p1 = p1
    p2 = p2
    Project = {p1}
    Forever = {}
    RetentionDays = 1
    HourTicks = 1
    DayTicks = 2
    MaxPending = 0
    MaxTime = 4
    MaxRows = 2
    Lines = {"whole"}
    Faults = {}
    NoFile = NoFile
PROPERTY OldFilesGo
CHECK_DEADLOCK FALSE
