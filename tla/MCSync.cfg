SPECIFICATION Spec
CONSTANTS
    Subs = {b1, b2}
    Rows = {r1}
    Requests = {q1, q2}
    MaxEvents = 3
    None = None
SYMMETRY Symmetry
VIEW View
CONSTRAINT FewAtOnce
INVARIANTS
    TypeOK
    HandledAtMostOnce
    AckedIsLogged
    CancelFlagCameFromStripe
PROPERTIES
    CanceledIsLeftOnlyLate
CHECK_DEADLOCK FALSE
