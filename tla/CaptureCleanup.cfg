SPECIFICATION FairSpec
CONSTANTS
    p1 = p1
    p2 = p2
    Project = {p1}
    Forever = {}
    RetentionDays = 1
    HourTicks = 2
    DayTicks = 4
    MaxPending = 1
    MaxTime = 5
    MaxRows = 2
    Lines = {"whole"}
    Faults = {"statement", "count", "remove", "restart"}
    NoFile = NoFile
INVARIANTS TypeOK LiveRowsHaveTheirFiles
PROPERTIES NeverADayEarly ExpiredRowsGo
CHECK_DEADLOCK FALSE
