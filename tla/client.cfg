CONSTANTS
    User = {u1}
    Request = {q1, q2}
    MaxSessions = 3
    NoUser = NoUser
SPECIFICATION ClientSpec
SYMMETRY Symmetry
INVARIANTS
    ClientTypeOK
    StoreBacked
