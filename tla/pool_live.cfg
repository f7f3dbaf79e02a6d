CONSTANTS
    NoJob = NoJob
    Bucket = {b1}
    Worker = {w1, w2}
    Indexed = {}
    MaxTicks = 1
    MaxChanges = 0
SPECIFICATION FairSpec
CHECK_DEADLOCK FALSE
INVARIANTS
    BarrierSlack
PROPERTIES
    RunsReturn
    StopReturns
