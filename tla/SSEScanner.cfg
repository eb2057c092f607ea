\* Every stream of up to six bytes, in every division into reads of up to three.
CONSTANTS
    BufSize = 3
    MaxLen = 6
SPECIFICATION FairScannerSpec
PROPERTY ImplementsEventStream
PROPERTY ImplementsFairEventStream
CHECK_DEADLOCK FALSE
