SPECIFICATION MCSpec
CONSTANTS
    Users = {u1}
    Passwords = {p1}
    MaxTokens = 3
    Requests = {q1, q2}
    MaxRows = 3
    MaxTime = 1
    MaxSecrets = 2
    MaxBatches = 2
    Size = 1
    Challenges = {s1}
    None = None
SYMMETRY Symmetry
VIEW View
INVARIANTS
    TypesOK
    OnboardedOnce
    ActiveIsVerified
    LinksAreBounded
    ResetsOnceAlone
    LoginsAlone
    CodeReuseIsBounded
    MfaAlone
PROPERTY
    DeadLoginsStayDead
CHECK_DEADLOCK FALSE
