CONSTANTS
    a = a
    b = b
    c = c
    Sources = {a, b, c}
    Size <- MCSize
    Retries = 4
    MaxBody = 3
    MaxFaults = 5
SPECIFICATION FairSpec
INVARIANTS TypeOK PartIsPrefix FinalIsWhole
PROPERTY DownloadHeals
