\* One admin who may change the project twice, two requests of which one is too
\* large to be looked at, a TTL of two ticks, a fill of at most one.
SPECIFICATION FairSpec
CONSTANTS
    p1 = p1
    r1 = r1
    r2 = r2
    a1 = a1
    Project = {p1}
    Request = {r1, r2}
    Admin = {a1}
    TooLarge = {r2}
    TTL = 2
    MaxLag = 1
    MaxVersion = 2
    NoConfig = NoConfig
INVARIANTS BoundedStaleness StaleOnlyIfRaced
PROPERTY SettlesOnTheTable
