CONSTANTS
    Name = {a}
    Empty = Empty
    MaxDepth = 2
    Query = {q1, q2}
    Blank = Blank
    Call = {c1, c2}
    NoTimer = NoTimer
    NoResults = NoResults
    MaxActions = 7
SPECIFICATION Spec
SYMMETRY Symmetry
CHECK_DEADLOCK FALSE
INVARIANTS
    TypeOK
    FolderShown
    TrailLeadsUp
    ResultsBelong
