SPECIFICATION Spec
CONSTANTS
    s1 = s1
    s2 = s2
    u1 = u1
    free = free
    basic = basic
    pro = pro
    None = None
    Sessions = {s1}
    Users = {u1}
    Owner <- MCOwner
    Plans = {free, basic, pro}
    PlanOf <- MCPlanOf
    FreePlan = free
    Rows = {r1, r2}
    Statuses = {"ACTIVE", "CANCELED"}
    Outcomes = {"paid"}
    Jobs = {j1, j2}
    Workers = {w1}
    MaxAttempts = 3
    MaxStalls = 2
INVARIANT
    ExpiredWasNotFinished
CHECK_DEADLOCK FALSE
