\* Liveness: two requests, otherwise as CapturePipeline.cfg.
CONSTANTS
    e1 = e1  e2 = e2  e3 = e3  p1 = p1  p2 = p2  h1 = h1  h2 = h2
    Entry = {e1, e2}
    Project = {p1}
    ProjectOf <- OneProject
    Hour = {h1, h2}
    BodySkipped = {}
    NotJson = {}
    ChannelSize = 1
    BatchSize = 2
    PoolSize = 1
    FsyncMayFail = TRUE
    MaxBoots = 2
SPECIFICATION FairSpec
CHECK_DEADLOCK FALSE
PROPERTIES ImplementsFairLedger ShutdownCompletes
