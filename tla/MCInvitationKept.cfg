SPECIFICATION MCSpec
CONSTANTS
    Users = {o, a}
    Owner = o
    Limits = {3, 4}
    MaxTokens = 3
    Requests = {q1, q2}
    Owners = {u1}
    Ids = {1, 2, 3}
    two = two
    foo = foo
    Names = {plain, two}
    Stems = {foo}
    Base <- MCBase
    MaxWorkspaces = {1, 2}
    MaxInt = 3
    Gone = Gone
    None = None
SYMMETRY Symmetry
PROPERTIES
    AcceptanceDeletesInvitation
CHECK_DEADLOCK FALSE
