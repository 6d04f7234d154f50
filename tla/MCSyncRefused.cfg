SPECIFICATION Spec
CONSTANTS
    Subs = {b1}
    Rows = {r1}
    Requests = {q1, q2}
    MaxEvents = 3
    None = None
SYMMETRY Symmetry
INVARIANT
    OnlyDuplicatesAreRefused
CHECK_DEADLOCK FALSE
