CONSTANTS
    Users = {u1, u2}
    Founder = u1
    Workers = {w1, w2}
    MaxRequests = 3
SPECIFICATION Spec
INVARIANT AlwaysAnOwner
CHECK_DEADLOCK FALSE
