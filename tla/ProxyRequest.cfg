SPECIFICATION FairSpec
CONSTANTS
    Request = {r1, r2}
    MaxEvents = 2
    MaxBoots = 2
    Faults = {"insert"}
INVARIANTS
    GaugeCountsStreams
    BooksAgree
    RecordsTellTheTruth
    AnsweredIsLogged
PROPERTIES
    EveryRequestEnds
\* Every request may have ended, and every process.
CHECK_DEADLOCK FALSE
