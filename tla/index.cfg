CONSTANTS
    LastKey = 3
    InitVersions <- SomeVersions
    PageSize = 2
    MaxChanges = 1
    MaxRuns = 2
    NoRow = NoRow
SPECIFICATION FairSpec
CHECK_DEADLOCK FALSE
INVARIANTS
    TypeOK
PROPERTIES
    WritesAreExact
    CompleteRunIsExact
    RunEnds
