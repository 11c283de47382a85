CONSTANTS
    c1 = c1
    c2 = c2
    Workers = {w1, w2}
    Numbers = {1, 2}
    Payloads = {p, q}
    NoPayload = NoPayload
    Channels = {"stable", "beta"}
    Rollouts = {10, 100}
    Clients = {c1, c2}
    ClientChannel <- MCChannel
    Cohort <- MCCohort
    MaxRequests = 3
SPECIFICATION FairSpec
INVARIANTS TypeOK RowsHaveObjects PayloadMatchesManifest ExposureWasRequested
PROPERTIES LiveUntilRolledBack DevicesConverge
CHECK_DEADLOCK FALSE
