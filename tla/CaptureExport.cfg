SPECIFICATION FairExportSpec
CONSTANTS
    p1 = p1
    p2 = p2
    c1 = c1
    Project = {p1}
    Forever = {}
    RetentionDays = 1
    HourTicks = 1
    DayTicks = 1
    MaxPending = 0
    MaxTime = 1
    MaxRows = 3
    Lines = {"whole", "broken"}
    Faults = {"statement"}
    NoFile = NoFile
    Reader = {c1}
    Modes = {"list", "paged", "download"}
    PageSize = 2
INVARIANTS ExportTypeOK NoRowTwice NoRowMissed
PROPERTY DownloadEndsOrIsStuck
CHECK_DEADLOCK FALSE
