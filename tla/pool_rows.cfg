CONSTANTS
    NoJob = NoJob
    Bucket = {b1, b2}
    Worker = {w1}
    Indexed = {b1}
    MaxTicks = 1
    MaxChanges = 1
SPECIFICATION Spec
SYMMETRY Symmetry
CHECK_DEADLOCK FALSE
INVARIANTS
    TypeOK
    StopCoversTicks
PROPERTIES
    CleanSyncsRows
    CollectsAsPromised
