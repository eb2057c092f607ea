\* An old version and the present one, started four times in any order.
SPECIFICATION Spec
CONSTANTS
    Versions = {8, 15}
    MaxStarts = 4
INVARIANTS TypeOK ServesOnFullSchema NobodyIsLockedOut
PROPERTIES FailsOnlyIfTorn NothingIsLost
\* The server is not started for ever.
CHECK_DEADLOCK FALSE
