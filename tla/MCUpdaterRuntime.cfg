CONSTANTS
    c1 = c1
    c2 = c2
    Threads = {t1, t2, t3}
    NoThread = NoThread
    Configs = {c1, c2}
    Patches = {1, 2}
    Running = 2
    MaxCalls = 3
SPECIFICATION FirstSpec
INVARIANTS TypeOK SingleFlight AnswerMatchesRequest
PROPERTIES CallsReturn CancelStops
CHECK_DEADLOCK FALSE
