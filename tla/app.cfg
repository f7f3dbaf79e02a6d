CONSTANTS
    b1 = b1
    b2 = b2
    n1 = n1
    n2 = n2
    None = None
    Bucket = {b1, b2}
    Name = {n1, n2}
    PageSize = 2
    Limit = 1
    MaxMade = 3
    MaxRules = 2
    MaxVersions = 3
    MaxCalls = 2
    MaxActions = 4
    Accounts <- SomeAccounts
    Contents <- SomeContents
    Rules <- SomeRules
    Feed <- SomeFeed
    Term <- SomeTerms
    Logs = 1
SPECIFICATION Spec
CHECK_DEADLOCK FALSE
INVARIANTS
    AppTypeOK
    SessionShown
    FlagsHonest
    ListsBelong
    NotStranded
    TokenOfDialog
    DeletedGone
PROPERTIES
    SavedAsTyped
    RulesKept
