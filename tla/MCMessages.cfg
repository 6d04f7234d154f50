SPECIFICATION MCSpec
CONSTANTS
    Jobs = {j1, j2}
    Workers = {w1, w2}
    MayHang = {w1}
    MaxAttempts = 2
    MaxStalls = 1
    Payloads = {p1, p2}
    p1 = p1
    p2 = p2
    Statuses <- MCStatuses
    Ref <- MCRef
    m = m
    n = n
    Requests = {q1, q2}
    Calls = {c1, c2, c3}
    MaxFailures = 2
    None = None
INVARIANTS
    TypesOK
    RefusalsAreFinal
    AnsweredIsStored
    OneCleanupAtATime
PROPERTIES
    MessagesEnd
    EveryPayloadIsAnswered
    MemoryIsReclaimed
CHECK_DEADLOCK FALSE
