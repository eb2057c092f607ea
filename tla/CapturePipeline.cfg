\* Safety: three requests, one of them too large to be stored, two files and
\* a pool of one, a channel of one, batches of two, one restart.
CONSTANTS
    e1 = e1  e2 = e2  e3 = e3  p1 = p1  p2 = p2  h1 = h1  h2 = h2
    Entry = {e1, e2, e3}
    Project = {p1}
    ProjectOf <- OneProject
    Hour = {h1, h2}
    BodySkipped = {e1}
    NotJson = {e2}
    ChannelSize = 1
    BatchSize = 2
    PoolSize = 1
    FsyncMayFail = TRUE
    MaxBoots = 2
SPECIFICATION Spec
SYMMETRY Hours
CHECK_DEADLOCK FALSE
INVARIANTS Accounting IndexedLinesDurable PoolSound ExactAccountsAtExit
PROPERTY ImplementsLedger
