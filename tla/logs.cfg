CONSTANTS
    Bucket = {b1, b2}
    Request = {q1}
    Retention = 0
    Limit = 2
    MaxLogs = 3
    MaxDay = 1
    NoBucket = NoBucket
SPECIFICATION FairSpec
INVARIANTS
    TypeOK
    AllSeen
    ScheduledBeforeClose
PROPERTIES
    OldLogsGo
    ShutdownEnds
