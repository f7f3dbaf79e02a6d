CONSTANTS
    User = {u1, u2}
    Request = {q1, q2}
    MaxSessions = 4
    NoUser = NoUser
SPECIFICATION Spec
SYMMETRY Symmetry
INVARIANTS
    TypeOK
    FamilySurvives
PROPERTIES
    SpentForGood
    DeletedDriesUp
    LoginsAsPromised
