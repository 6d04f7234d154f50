SPECIFICATION FairSpec
CONSTANTS
    s1 = s1
    s2 = s2
    u1 = u1
    free = free
    basic = basic
    pro = pro
    None = None
    Sessions = {s1}
    Users = {u1}
    Owner <- MCOwner
    Plans = {free, basic, pro}
    PlanOf <- MCPlanOf
    FreePlan = free
    Rows = {r1}
    Statuses = {"ACTIVE"}
    Outcomes = {"paid", "no_subscription"}
    Jobs = {j1, j2}
    Workers = {w1, w2}
    MaxAttempts = 2
    MaxStalls = 1
PROPERTIES
    PendingEnds
    JobsEnd
CHECK_DEADLOCK FALSE
