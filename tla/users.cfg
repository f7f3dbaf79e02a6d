CONSTANTS
    Id = {i1, i2}
    Email = {e1, e2}
    Gender = {g1, g2}
    Request = {q1, q2}
    Blank = Blank
    NoId = NoId
SPECIFICATION Spec
SYMMETRY Symmetry
INVARIANTS
    TypeOK
    TogglesKept
    UpdatesKept
PROPERTIES
    DeletedIsFinal
