CONSTANTS
    Users = {u1, u2, u3}
    Founder = u1
    Workers = {w1, w2}
    MaxRequests = 4
SPECIFICATION Spec
INVARIANT TypeOK
PROPERTIES LastOwnerGuarded RemovedStaysOut
CHECK_DEADLOCK FALSE
