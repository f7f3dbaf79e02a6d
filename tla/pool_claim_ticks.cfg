CONSTANTS
    NoJob = NoJob
    Bucket = {b1, b2}
    Worker = {w1}
    Indexed = {}
    MaxTicks = 1
    MaxChanges = 0
SPECIFICATION FairSpec
CHECK_DEADLOCK FALSE
PROPERTIES
    KeepsTicking
