SPECIFICATION Spec
CONSTANTS
    Users = {u1, u2}
    Tokens = {t1}
    Ids = {1, 2}
    Jobs = {j1, j2}
    Requests = {q1}
    MaxAttempts = 2
    MaxStalls = 1
    Gone = Gone
    None = None
SYMMETRY Symmetry
INVARIANTS
    TypeOK
    SendsAreBounded
    InvalidTokensWereReported
CHECK_DEADLOCK FALSE
